---- MODULE Spec2Model ----
(***************************************************************************)
(* Model of the WebSocket message envelope of the uc_api crate             *)
(* (src/src/ws/mod.rs): the generic JSON value, the strict envelopes       *)
(* WsRequest / WsResponse, the lenient envelope WsMessage, their helper    *)
(* constructors, the conversions strict -> lenient and the derived serde   *)
(* serialization.  Every constructor call is one action; `last` holds the  *)
(* most recent call (operation, arguments, returned value).                *)
(***************************************************************************)
EXTENDS Integers, Sequences, FiniteSets, TLC

VARIABLES
    clock,      \* the wall clock Utc::now() reads
    reading,    \* Option: a clock reading the caller took earlier (`let now = Utc::now()`)
    sentIds,    \* ids of the request envelopes built so far on the connection
    respIds,    \* req_ids of the response envelopes built in answer to a sent request
    last,       \* the last constructor call: [op, args, ret]
    calls       \* the calls in progress on concurrent threads: thread -> [pc, op, args, ..]

vars == <<clock, reading, sentIds, respIds, last, calls>>

(***************************************************************************)
(* Bounds of the model.                                                    *)
(***************************************************************************)
MaxId == 1
MaxClock == 2

Ids == 0..MaxId                     \* u32 ids; no arithmetic is done on them
Times == 0..MaxClock                \* seconds of the wall clock
U16Max == 65535
Codes == {0, 200, 400, U16Max}      \* u16 response codes, in and out of the HTTP range
Msgs == {"result", "test_resp"}
Fields == {"foobar", ""}
Messages == {"custom error text", ""}

(***************************************************************************)
(* Option<T>: None is the empty sequence, Some(x) the one-element one.     *)
(***************************************************************************)
None == <<>>
Some(x) == <<x>>
IsSome(o) == Len(o) = 1

(***************************************************************************)
(* serde_json::Value, tagged so that values of different JSON types never  *)
(* share a record shape.                                                   *)
(***************************************************************************)
Null == [t |-> "null"]
Str(s) == [t |-> "str", s |-> s]
Num(n) == [t |-> "num", n |-> n]
Obj(o) == [t |-> "obj", o |-> o]

EmptyMap == [k \in {} |-> Null]

\* json!({ "code": c, "message": m })
json_code_message(c, m) == Obj([code |-> Str(c), message |-> Str(m)])

(***************************************************************************)
(* WsResultMsgData                                                         *)
(***************************************************************************)
WsResultMsgData_new(code, message) ==
    [ty |-> "WsResultMsgData", code |-> code, message |-> message]

ResultDatas ==
    { WsResultMsgData_new(c, m) : c \in {"ERROR", "OK"}, m \in {"foobar", ""} }

(***************************************************************************)
(* The values a caller hands to a constructor as `msg_data: T` with        *)
(* T: serde::Serialize.                                                    *)
(***************************************************************************)
JsonValues == { Null, Str("bar"), Obj([foo |-> Str("bar")]) }

Payloads ==
    { WsResultMsgData_new("OK", "success") }
    \cup { [ty |-> "Value", value |-> v] : v \in JsonValues }
    \cup { [ty |-> "OptionNone"],           \* None::<T>
           [ty |-> "Unit"],                 \* ()
           [ty |-> "U32", n |-> 42],
           [ty |-> "MapNonStringKey"],      \* a map whose keys are not strings
           [ty |-> "FailingSerialize"] }    \* a Serialize impl that returns Err

Ok(v) == [ok |-> TRUE, v |-> v]
Err(e) == [ok |-> FALSE, err |-> e]

\* serde_json::to_value(msg_data)
to_value(p) ==
    CASE p.ty = "WsResultMsgData" ->
            Ok(Obj([code |-> Str(p.code), message |-> Str(p.message)]))
      [] p.ty = "Value" -> Ok(p.value)
      [] p.ty = "OptionNone" -> Ok(Null)
      [] p.ty = "Unit" -> Ok(Null)
      [] p.ty = "U32" -> Ok(Num(p.n))
      [] p.ty = "MapNonStringKey" -> Err("key must be a string")
      [] p.ty = "FailingSerialize" -> Err("custom")

\* a panic raised by Result::expect
Panic == [panic |-> TRUE]

(***************************************************************************)
(* EventCategory and its SCREAMING_SNAKE_CASE wire names.                  *)
(***************************************************************************)
EventCategory == {"Device", "Entity", "Remote", "Ui"}

Serialize_EventCategory(c) ==
    CASE c = "Device" -> Str("DEVICE")
      [] c = "Entity" -> Str("ENTITY")
      [] c = "Remote" -> Str("REMOTE")
      [] c = "Ui" -> Str("UI")

\* `cat: impl Into<Option<EventCategory>>`: a bare category or an Option
CatArgs ==
    { [bare |-> c] : c \in {"Device", "Ui"} }
    \cup { [opt |-> None], [opt |-> Some("Entity")] }

Into_Option(a) == IF "bare" \in DOMAIN a THEN Some(a.bare) ELSE a.opt

(***************************************************************************)
(* DateTime<Utc> and its RFC 3339 wire form.                               *)
(***************************************************************************)
Digit == <<"0", "1", "2", "3", "4", "5", "6", "7", "8", "9">>

Serialize_DateTime(t) ==
    Str("1970-01-01T00:00:" \o Digit[(t \div 10) + 1] \o Digit[(t % 10) + 1] \o "Z")

\* ts.parse::<DateTime<Utc>>() of a serialized timestamp
Parse_DateTime(j) == CHOOSE t \in 0..59 : Serialize_DateTime(t) = j

(***************************************************************************)
(* The lenient envelope WsMessage: every field optional, unknown top-level *)
(* keys kept in `extra`.                                                   *)
(***************************************************************************)
WsMessage_Default ==
    [kind |-> None, id |-> None, req_id |-> None, msg |-> None, code |-> None,
     cat |-> None, ts |-> None, msg_data |-> None, extra |-> EmptyMap]

\* mutant: an event that carries an id
WsMessage_event_WithId(msg, cat, msg_data, now) ==
    [WsMessage_Default EXCEPT
        !.kind = Some("event"),
        !.id = Some(0),
        !.msg = Some(msg),
        !.cat = Into_Option(cat),
        !.ts = Some(now),
        !.msg_data = Some(msg_data)]

WsMessage_event(msg, cat, msg_data, now) ==
    [WsMessage_Default EXCEPT
        !.kind = Some("event"),
        !.msg = Some(msg),
        !.cat = Into_Option(cat),
        !.ts = Some(now),
        !.msg_data = Some(msg_data)]

\* mutant: built like a request with the unit payload
WsMessage_simple_request_NullPayload(id, msg) ==
    [WsMessage_Default EXCEPT
        !.kind = Some("req"),
        !.id = Some(id),
        !.msg = Some(msg),
        !.msg_data = Some(Null)]

WsMessage_simple_request(id, msg) ==
    [WsMessage_Default EXCEPT
        !.kind = Some("req"),
        !.id = Some(id),
        !.msg = Some(msg)]

\* mutant: an unrepresentable payload becomes null instead of an error
WsMessage_request_NeverFails(id, msg, msg_data) ==
    LET r == to_value(msg_data) IN
    Ok([WsMessage_Default EXCEPT
            !.kind = Some("req"),
            !.id = Some(id),
            !.msg = Some(msg),
            !.msg_data = Some(IF r.ok THEN r.v ELSE Null)])

WsMessage_request(id, msg, msg_data) ==
    LET r == to_value(msg_data) IN
    IF ~r.ok THEN Err(r.err)
    ELSE Ok([WsMessage_Default EXCEPT
                !.kind = Some("req"),
                !.id = Some(id),
                !.msg = Some(msg),
                !.msg_data = Some(r.v)])

\* mutant: a null payload is dropped
WsMessage_response_json_DropsNull(req_id, msg, msg_data) ==
    [WsMessage_Default EXCEPT
        !.kind = Some("resp"),
        !.req_id = Some(req_id),
        !.msg = Some(msg),
        !.code = Some(200),
        !.msg_data = IF msg_data = Null THEN None ELSE Some(msg_data)]

WsMessage_response_json(req_id, msg, msg_data) ==
    [WsMessage_Default EXCEPT
        !.kind = Some("resp"),
        !.req_id = Some(req_id),
        !.msg = Some(msg),
        !.code = Some(200),
        !.msg_data = Some(msg_data)]

\* mutant: the fallback keeps the caller's msg
WsMessage_response_KeepsMsg(req_id, msg, msg_data) ==
    LET r == to_value(msg_data) IN
    [WsMessage_Default EXCEPT
        !.kind = Some("resp"),
        !.req_id = Some(req_id),
        !.msg = Some(msg),
        !.code = Some(IF r.ok THEN 200 ELSE 500),
        !.msg_data =
            Some(IF r.ok THEN r.v
                 ELSE json_code_message("INTERNAL_ERROR", "Error serializing result"))]

WsMessage_response(req_id, msg, msg_data) ==
    LET r == to_value(msg_data) IN
    IF r.ok
    THEN [WsMessage_Default EXCEPT
            !.kind = Some("resp"),
            !.req_id = Some(req_id),
            !.msg = Some(msg),
            !.code = Some(200),
            !.msg_data = Some(r.v)]
    ELSE [WsMessage_Default EXCEPT
            !.kind = Some("resp"),
            !.req_id = Some(req_id),
            !.msg = Some("result"),
            !.code = Some(500),
            !.msg_data =
                Some(json_code_message("INTERNAL_ERROR", "Error serializing result"))]

WsMessage_error(req_id, code, msg_data) ==
    LET r == to_value(msg_data) IN
    IF ~r.ok THEN Panic     \* .expect("Error serializing model::Error struct")
    ELSE [WsMessage_Default EXCEPT
            !.kind = Some("resp"),
            !.req_id = Some(req_id),
            !.msg = Some("result"),
            !.code = Some(code),
            !.msg_data = Some(r.v)]

(***************************************************************************)
(* The strict envelopes WsRequest and WsResponse.                          *)
(***************************************************************************)
\* mutant: a payload that cannot be converted is silently left out
WsRequest_new_DropsPayload(id, msg, msg_data) ==
    LET r == to_value(msg_data) IN
    Ok([kind |-> "req", id |-> id, msg |-> msg,
        msg_data |-> IF r.ok THEN Some(r.v) ELSE None])

WsRequest_new(id, msg, msg_data) ==
    LET r == to_value(msg_data) IN
    IF ~r.ok THEN Err(r.err)
    ELSE Ok([kind |-> "req", id |-> id, msg |-> msg, msg_data |-> Some(r.v)])

WsMessage_from_WsRequest(r) ==
    [WsMessage_Default EXCEPT
        !.kind = Some(r.kind),
        !.id = Some(r.id),
        !.msg = Some(r.msg),
        !.msg_data = r.msg_data]

\* mutant: the fallback envelope is built with the default req_id
WsResponse_new_FallbackLosesReqId(req_id, msg, msg_data) ==
    LET r == to_value(msg_data) IN
    IF r.ok
    THEN [kind |-> "resp", req_id |-> req_id, msg |-> msg, code |-> 200,
          msg_data |-> Some(r.v)]
    ELSE [kind |-> "resp", req_id |-> 0, msg |-> "result", code |-> 500,
          msg_data |->
              Some(json_code_message("INTERNAL_ERROR", "Error serializing result"))]

WsResponse_new(req_id, msg, msg_data) ==
    LET r == to_value(msg_data) IN
    IF r.ok
    THEN [kind |-> "resp", req_id |-> req_id, msg |-> msg, code |-> 200,
          msg_data |-> Some(r.v)]
    ELSE [kind |-> "resp", req_id |-> req_id, msg |-> "result", code |-> 500,
          msg_data |->
              Some(json_code_message("INTERNAL_ERROR", "Error serializing result"))]

\* mutant: a code outside the HTTP status range is replaced by 500
WsResponse_error_ClampsCode(req_id, code, msg_data) ==
    LET r == to_value(msg_data) IN
    IF ~r.ok THEN Panic
    ELSE [kind |-> "resp", req_id |-> req_id, msg |-> "result",
          code |-> IF code < 100 \/ code > 599 THEN 500 ELSE code,
          msg_data |-> Some(r.v)]

WsResponse_error(req_id, code, msg_data) ==
    LET r == to_value(msg_data) IN
    IF ~r.ok THEN Panic     \* .expect("Error serializing WsError struct")
    ELSE [kind |-> "resp", req_id |-> req_id, msg |-> "result", code |-> code,
          msg_data |-> Some(r.v)]

\* mutant: the message is the bare field name
WsResponse_missing_field_NoPrefix(req_id, field) ==
    [kind |-> "resp", req_id |-> req_id, msg |-> "result", code |-> 400,
     msg_data |-> Some(json_code_message("BAD_REQUEST", field))]

WsResponse_missing_field(req_id, field) ==
    [kind |-> "resp", req_id |-> req_id, msg |-> "result", code |-> 400,
     msg_data |-> Some(json_code_message("BAD_REQUEST", "Missing field: " \o field))]

WsResponse_not_found(req_id, message) ==
    [kind |-> "resp", req_id |-> req_id, msg |-> "result", code |-> 404,
     msg_data |-> Some(json_code_message("NOT_FOUND", message))]

\* mutant: the payload is present and null
WsResponse_result_NullPayload(req_id, code) ==
    [kind |-> "resp", req_id |-> req_id, msg |-> "result", code |-> code,
     msg_data |-> Some(Null)]

WsResponse_result(req_id, code) ==
    [kind |-> "resp", req_id |-> req_id, msg |-> "result", code |-> code,
     msg_data |-> None]

\* mutant: the response code is not copied
WsMessage_from_WsResponse_NoCode(r) ==
    [WsMessage_Default EXCEPT
        !.kind = Some(r.kind),
        !.req_id = Some(r.req_id),
        !.msg = Some(r.msg),
        !.msg_data = r.msg_data]

WsMessage_from_WsResponse(r) ==
    [WsMessage_Default EXCEPT
        !.kind = Some(r.kind),
        !.req_id = Some(r.req_id),
        !.msg = Some(r.msg),
        !.code = Some(r.code),
        !.msg_data = r.msg_data]

(***************************************************************************)
(* serde_json::to_value of an envelope (the derived Serialize impls).      *)
(* A JSON object is a function from its keys to values.                    *)
(***************************************************************************)
\* one optional field: skipped when None (skip_serializing_if = "Option::is_none")
OptField(k, o) == IF IsSome(o) THEN k :> o[1] ELSE EmptyMap

OptStr(o) == IF IsSome(o) THEN Some(Str(o[1])) ELSE None
OptNum(o) == IF IsSome(o) THEN Some(Num(o[1])) ELSE None
OptCat(o) == IF IsSome(o) THEN Some(Serialize_EventCategory(o[1])) ELSE None
OptTs(o) == IF IsSome(o) THEN Some(Serialize_DateTime(o[1])) ELSE None

\* #[skip_serializing_none] on every Option field, #[serde(flatten)] on extra:
\* the entries of extra are written last into the same object
Serialize_WsMessage(m) ==
    m.extra
    @@ OptField("kind", OptStr(m.kind))
    @@ OptField("id", OptNum(m.id))
    @@ OptField("req_id", OptNum(m.req_id))
    @@ OptField("msg", OptStr(m.msg))
    @@ OptField("code", OptNum(m.code))
    @@ OptField("cat", OptCat(m.cat))
    @@ OptField("ts", OptTs(m.ts))
    @@ OptField("msg_data", m.msg_data)

Serialize_WsRequest(r) ==
    [kind |-> Str(r.kind), id |-> Num(r.id), msg |-> Str(r.msg)]
    @@ OptField("msg_data", r.msg_data)

Serialize_WsResponse(r) ==
    [kind |-> Str(r.kind), req_id |-> Num(r.req_id), msg |-> Str(r.msg),
     code |-> Num(r.code)]
    @@ OptField("msg_data", r.msg_data)

(***************************************************************************)
(* The state machine: one action per constructor call.                     *)
(***************************************************************************)
\* no concurrent calls
NoCalls == <<>>

NoCall == [op |-> "none"]

Init ==
    /\ clock \in Times
    /\ reading = None
    /\ sentIds = {}
    /\ respIds = {}
    /\ calls = NoCalls
    /\ last = NoCall

\* the wall clock advances
Tick ==
    /\ clock < MaxClock
    /\ clock' = clock + 1
    /\ UNCHANGED <<reading, sentIds, respIds, last, calls>>

\* the wall clock is adjusted (time synchronisation, an operator setting it)
ClockSet ==
    /\ \E t \in Times : t # clock /\ clock' = t
    /\ UNCHANGED <<reading, sentIds, respIds, last, calls>>

\* the caller reads the clock: `let now = Utc::now();`
ReadClock ==
    /\ reading' = Some(clock)
    /\ UNCHANGED <<clock, sentIds, respIds, last, calls>>

\* bookkeeping of the logical connection: a built request is sent, a response
\* built for a sent request is recorded with the req_id its envelope carries
Sent(id) == sentIds \cup {id}
Answered(req_id, env_req_id) ==
    IF req_id \in sentIds THEN respIds \cup {env_req_id} ELSE respIds

CallEvent ==
    \E msg \in Msgs, cat \in CatArgs, msg_data \in JsonValues :
        /\ last' = [op |-> "WsMessage_event",
                    args |-> [msg |-> msg, cat |-> cat, msg_data |-> msg_data,
                              before |-> reading, now |-> clock],
                    ret |-> WsMessage_event(msg, cat, msg_data, clock)]
        /\ UNCHANGED <<clock, reading, sentIds, respIds, calls>>

CallSimpleRequest ==
    \E id \in Ids, msg \in Msgs :
        /\ last' = [op |-> "WsMessage_simple_request",
                    args |-> [id |-> id, msg |-> msg],
                    ret |-> WsMessage_simple_request(id, msg)]
        /\ sentIds' = Sent(id)
        /\ UNCHANGED <<clock, reading, respIds, calls>>

CallRequest ==
    \E id \in Ids, msg \in Msgs, msg_data \in Payloads :
        LET ret == WsMessage_request(id, msg, msg_data) IN
        /\ last' = [op |-> "WsMessage_request",
                    args |-> [id |-> id, msg |-> msg, msg_data |-> msg_data],
                    ret |-> ret]
        /\ sentIds' = IF ret.ok THEN Sent(id) ELSE sentIds
        /\ UNCHANGED <<clock, reading, respIds, calls>>

CallWsRequestNew ==
    \E id \in Ids, msg \in Msgs, msg_data \in Payloads :
        LET ret == WsRequest_new(id, msg, msg_data) IN
        /\ last' = [op |-> "WsRequest_new",
                    args |-> [id |-> id, msg |-> msg, msg_data |-> msg_data],
                    ret |-> ret]
        /\ sentIds' = IF ret.ok THEN Sent(id) ELSE sentIds
        /\ UNCHANGED <<clock, reading, respIds, calls>>

CallFromWsRequest ==
    /\ last.op = "WsRequest_new"
    /\ last.ret.ok
    /\ last' = [op |-> "WsMessage_from_WsRequest",
                args |-> [r |-> last.ret.v],
                ret |-> WsMessage_from_WsRequest(last.ret.v)]
    /\ UNCHANGED <<clock, reading, sentIds, respIds, calls>>

CallResponseJson ==
    \E req_id \in Ids, msg \in Msgs, msg_data \in JsonValues :
        LET ret == WsMessage_response_json(req_id, msg, msg_data) IN
        /\ last' = [op |-> "WsMessage_response_json",
                    args |-> [req_id |-> req_id, msg |-> msg, msg_data |-> msg_data],
                    ret |-> ret]
        /\ respIds' = Answered(req_id, ret.req_id[1])
        /\ UNCHANGED <<clock, reading, sentIds, calls>>

CallResponse ==
    \E req_id \in Ids, msg \in Msgs, msg_data \in Payloads :
        LET ret == WsMessage_response(req_id, msg, msg_data) IN
        /\ last' = [op |-> "WsMessage_response",
                    args |-> [req_id |-> req_id, msg |-> msg, msg_data |-> msg_data],
                    ret |-> ret]
        /\ respIds' = Answered(req_id, ret.req_id[1])
        /\ UNCHANGED <<clock, reading, sentIds, calls>>

CallError ==
    \E req_id \in Ids, code \in Codes, msg_data \in ResultDatas :
        LET ret == WsMessage_error(req_id, code, msg_data) IN
        /\ last' = [op |-> "WsMessage_error",
                    args |-> [req_id |-> req_id, code |-> code, msg_data |-> msg_data],
                    ret |-> ret]
        /\ respIds' = IF ret = Panic THEN respIds ELSE Answered(req_id, ret.req_id[1])
        /\ UNCHANGED <<clock, reading, sentIds, calls>>

CallWsResponseNew ==
    \E req_id \in Ids, msg \in Msgs, msg_data \in Payloads :
        LET ret == WsResponse_new(req_id, msg, msg_data) IN
        /\ last' = [op |-> "WsResponse_new",
                    args |-> [req_id |-> req_id, msg |-> msg, msg_data |-> msg_data],
                    ret |-> ret]
        /\ respIds' = Answered(req_id, ret.req_id)
        /\ UNCHANGED <<clock, reading, sentIds, calls>>

CallWsResponseError ==
    \E req_id \in Ids, code \in Codes, msg_data \in ResultDatas :
        LET ret == WsResponse_error(req_id, code, msg_data) IN
        /\ last' = [op |-> "WsResponse_error",
                    args |-> [req_id |-> req_id, code |-> code, msg_data |-> msg_data],
                    ret |-> ret]
        /\ respIds' = IF ret = Panic THEN respIds ELSE Answered(req_id, ret.req_id)
        /\ UNCHANGED <<clock, reading, sentIds, calls>>

CallMissingField ==
    \E req_id \in Ids, field \in Fields :
        LET ret == WsResponse_missing_field(req_id, field) IN
        /\ last' = [op |-> "WsResponse_missing_field",
                    args |-> [req_id |-> req_id, field |-> field],
                    ret |-> ret]
        /\ respIds' = Answered(req_id, ret.req_id)
        /\ UNCHANGED <<clock, reading, sentIds, calls>>

CallNotFound ==
    \E req_id \in Ids, message \in Messages :
        LET ret == WsResponse_not_found(req_id, message) IN
        /\ last' = [op |-> "WsResponse_not_found",
                    args |-> [req_id |-> req_id, message |-> message],
                    ret |-> ret]
        /\ respIds' = Answered(req_id, ret.req_id)
        /\ UNCHANGED <<clock, reading, sentIds, calls>>

CallResult ==
    \E req_id \in Ids, code \in Codes :
        LET ret == WsResponse_result(req_id, code) IN
        /\ last' = [op |-> "WsResponse_result",
                    args |-> [req_id |-> req_id, code |-> code],
                    ret |-> ret]
        /\ respIds' = Answered(req_id, ret.req_id)
        /\ UNCHANGED <<clock, reading, sentIds, calls>>

StrictResponseOps ==
    {"WsResponse_new", "WsResponse_error", "WsResponse_missing_field",
     "WsResponse_not_found", "WsResponse_result"}

CallFromWsResponse ==
    /\ last.op \in StrictResponseOps
    /\ last.ret # Panic
    /\ last' = [op |-> "WsMessage_from_WsResponse",
                args |-> [r |-> last.ret],
                ret |-> WsMessage_from_WsResponse(last.ret)]
    /\ UNCHANGED <<clock, reading, sentIds, respIds, calls>>

\* the constructors, called in any order on one logical connection; the clock
\* stands still at the value Init chose
Next ==
    \/ CallEvent
    \/ CallSimpleRequest
    \/ CallRequest
    \/ CallWsRequestNew
    \/ CallFromWsRequest
    \/ CallResponseJson
    \/ CallResponse
    \/ CallError
    \/ CallWsResponseNew
    \/ CallWsResponseError
    \/ CallMissingField
    \/ CallNotFound
    \/ CallResult
    \/ CallFromWsResponse

Spec == Init /\ [][Next]_vars

\* the event constructor under a running wall clock
NextClock ==
    \/ Tick
    \/ ClockSet
    \/ ReadClock
    \/ CallEvent

SpecClock == Init /\ [][NextClock]_vars

(***************************************************************************)
(* What the last call returned, and its serialized form.                   *)
(***************************************************************************)
IsWsMessage(x) == DOMAIN x = DOMAIN WsMessage_Default
IsWsRequest(x) == DOMAIN x = {"kind", "id", "msg", "msg_data"}
IsWsResponse(x) == DOMAIN x = {"kind", "req_id", "msg", "code", "msg_data"}
IsResult(x) == "ok" \in DOMAIN x

\* the envelope the last call returned, unwrapped from its Result
LastEnvelope == IF IsResult(last.ret) THEN last.ret.v ELSE last.ret

\* serde_json::to_value of that envelope
LastJson ==
    CASE IsWsMessage(LastEnvelope) -> Serialize_WsMessage(LastEnvelope)
      [] IsWsRequest(LastEnvelope) -> Serialize_WsRequest(LastEnvelope)
      [] IsWsResponse(LastEnvelope) -> Serialize_WsResponse(LastEnvelope)

Representable(p) == to_value(p).ok

InternalErrorBody ==
    Obj([code |-> Str("INTERNAL_ERROR"), message |-> Str("Error serializing result")])

(***************************************************************************)
(* C1: for a payload that cannot be converted to a JSON value,             *)
(* WsMessage::response and WsResponse::new return no error and do not      *)
(* panic; they return an envelope that serializes to exactly kind "resp",  *)
(* the given req_id, msg "result" (the caller's msg discarded), code 500   *)
(* and msg_data {code: "INTERNAL_ERROR", message: "Error serializing       *)
(* result"}.                                                               *)
(***************************************************************************)
C1_ResponseFallback ==
    (/\ last.op \in {"WsMessage_response", "WsResponse_new"}
     /\ ~Representable(last.args.msg_data))
    => /\ IF last.op = "WsMessage_response"
          THEN IsWsMessage(last.ret) ELSE IsWsResponse(last.ret)
       /\ LastJson = [kind |-> Str("resp"),
                      req_id |-> Num(last.args.req_id),
                      msg |-> Str("result"),
                      code |-> Num(500),
                      msg_data |-> InternalErrorBody]

C1_Witness ==
    /\ last.op = "WsMessage_response"
    /\ last.args.msg_data.ty = "MapNonStringKey"
    /\ last.args.msg = "test_resp"
    /\ last.ret.code = Some(500)

(***************************************************************************)
(* C2: for a representable payload, WsMessage::response,                   *)
(* WsMessage::response_json and WsResponse::new return an envelope that    *)
(* serializes to exactly kind "resp", the given req_id, code 200, the      *)
(* given msg and msg_data equal to the serialized payload: no id, cat or   *)
(* ts key.                                                                 *)
(***************************************************************************)
C2_PayloadJson ==
    IF last.op = "WsMessage_response_json"
    THEN last.args.msg_data
    ELSE to_value(last.args.msg_data).v

C2_ResponseSuccess ==
    (/\ last.op \in {"WsMessage_response", "WsMessage_response_json", "WsResponse_new"}
     /\ last.op = "WsMessage_response_json" \/ Representable(last.args.msg_data))
    => /\ IF last.op = "WsResponse_new"
          THEN IsWsResponse(last.ret) ELSE IsWsMessage(last.ret)
       /\ LastJson = [kind |-> Str("resp"),
                      req_id |-> Num(last.args.req_id),
                      msg |-> Str(last.args.msg),
                      code |-> Num(200),
                      msg_data |-> C2_PayloadJson]

C2_Witness ==
    /\ last.op = "WsResponse_new"
    /\ last.args.msg_data.ty = "WsResultMsgData"
    /\ last.args.msg = "test_resp"
    /\ last.ret.code = 200
    /\ last.ret.msg_data = Some(Obj([code |-> Str("OK"), message |-> Str("success")]))

(***************************************************************************)
(* C3: WsMessage::request and WsRequest::new return an error and no        *)
(* envelope when the payload cannot be converted; for a representable      *)
(* payload they return an envelope that serializes to exactly kind "req",  *)
(* the given id and msg and msg_data equal to the serialized payload.      *)
(***************************************************************************)
C3_RequestResult ==
    last.op \in {"WsMessage_request", "WsRequest_new"}
    => /\ IsResult(last.ret)
       /\ IF Representable(last.args.msg_data)
          THEN /\ last.ret.ok
               /\ IF last.op = "WsRequest_new"
                  THEN IsWsRequest(last.ret.v) ELSE IsWsMessage(last.ret.v)
               /\ LastJson = [kind |-> Str("req"),
                              id |-> Num(last.args.id),
                              msg |-> Str(last.args.msg),
                              msg_data |-> to_value(last.args.msg_data).v]
          ELSE /\ ~last.ret.ok
               /\ "v" \notin DOMAIN last.ret

C3_Witness ==
    /\ last.op = "WsRequest_new"
    /\ last.args.msg_data.ty = "FailingSerialize"
    /\ ~last.ret.ok

(***************************************************************************)
(* C4: an absent payload is omitted from the serialized envelope: when the *)
(* caller passes an absent optional or a null value to WsMessage::request, *)
(* WsRequest::new, WsMessage::response, WsMessage::response_json or        *)
(* WsResponse::new, the serialized object has no msg_data key, and         *)
(* msg_data is never emitted with the value null.                          *)
(***************************************************************************)
PayloadOps ==
    {"WsMessage_request", "WsRequest_new", "WsMessage_response",
     "WsMessage_response_json", "WsResponse_new"}

\* the caller gave no payload: None::<T> or the null value
AbsentPayload ==
    IF last.op = "WsMessage_response_json"
    THEN last.args.msg_data = Null
    ELSE \/ last.args.msg_data.ty = "OptionNone"
         \/ last.args.msg_data.ty = "Value" /\ last.args.msg_data.value = Null

ReturnedEnvelope ==
    /\ last.op # "none"
    /\ last.ret # Panic
    /\ IsResult(last.ret) => last.ret.ok

C4_AbsentPayloadOmitted ==
    (last.op \in PayloadOps /\ ReturnedEnvelope)
    => /\ AbsentPayload => "msg_data" \notin DOMAIN LastJson
       /\ "msg_data" \in DOMAIN LastJson => LastJson.msg_data # Null

(***************************************************************************)
(* C5: WsMessage::simple_request(id, msg) never fails and serializes to    *)
(* exactly {kind: "req", id: <id>, msg: <msg>}: no msg_data, req_id, code, *)
(* cat, ts or extra key.                                                   *)
(***************************************************************************)
C5_SimpleRequest ==
    last.op = "WsMessage_simple_request"
    => /\ IsWsMessage(last.ret)
       /\ LastJson = [kind |-> Str("req"),
                      id |-> Num(last.args.id),
                      msg |-> Str(last.args.msg)]

C5_Witness ==
    /\ last.op = "WsMessage_simple_request"
    /\ last.args.id = 1
    /\ last.ret.id = Some(1)
    /\ last.ret.msg_data = None

(***************************************************************************)
(* C6: every response constructor, the code-500 fallback included, copies  *)
(* the given req_id unchanged into the envelope; so every response built   *)
(* with the id of a request sent before on the connection carries the id   *)
(* of a sent request.                                                      *)
(***************************************************************************)
ResponseOps ==
    {"WsMessage_response", "WsMessage_response_json", "WsMessage_error"}
    \cup StrictResponseOps

C6_ReqIdCorrelated ==
    /\ respIds \subseteq sentIds
    /\ (last.op \in ResponseOps /\ ReturnedEnvelope)
       => IF IsWsMessage(last.ret)
          THEN last.ret.req_id = Some(last.args.req_id)
          ELSE last.ret.req_id = last.args.req_id

C6_Witness ==
    /\ last.op = "WsResponse_new"
    /\ ~Representable(last.args.msg_data)
    /\ last.args.req_id = 1
    /\ sentIds = {1}
    /\ respIds = {1}

(***************************************************************************)
(* C7: WsMessage::error and WsResponse::error return, for every req_id,    *)
(* every u16 code (0 and 65535 included, no range check) and every result  *)
(* {code, message}, an envelope that serializes to kind "resp", the given  *)
(* req_id, msg "result", the given numeric code and msg_data               *)
(* {code: <result.code>, message: <result.message>}.                       *)
(***************************************************************************)
C7_ErrorResponse ==
    last.op \in {"WsMessage_error", "WsResponse_error"}
    => /\ IF last.op = "WsMessage_error"
          THEN IsWsMessage(last.ret) ELSE IsWsResponse(last.ret)
       /\ LastJson = [kind |-> Str("resp"),
                      req_id |-> Num(last.args.req_id),
                      msg |-> Str("result"),
                      code |-> Num(last.args.code),
                      msg_data |-> Obj([code |-> Str(last.args.msg_data.code),
                                        message |-> Str(last.args.msg_data.message)])]

C7_Witness ==
    /\ last.op = "WsResponse_error"
    /\ last.args.code = U16Max
    /\ last.ret.code = U16Max
    /\ last.args.msg_data.code = "ERROR"

(***************************************************************************)
(* C8: WsResponse::missing_field(req_id, field) equals                     *)
(* WsResponse::error(req_id, 400, {BAD_REQUEST, "Missing field: " field})  *)
(* and WsResponse::not_found(req_id, message) equals                       *)
(* WsResponse::error(req_id, 404, {NOT_FOUND, message});                   *)
(* missing_field(123, "foobar") serializes to exactly {kind: "resp",       *)
(* req_id: 123, msg: "result", code: 400, msg_data: {code: "BAD_REQUEST",  *)
(* message: "Missing field: foobar"}}.                                     *)
(***************************************************************************)
C8_ConvenienceErrors ==
    /\ last.op = "WsResponse_missing_field"
       => /\ last.ret =
                WsResponse_error(last.args.req_id, 400,
                    WsResultMsgData_new("BAD_REQUEST",
                                        "Missing field: " \o last.args.field))
          /\ Serialize_WsResponse(WsResponse_missing_field(123, "foobar")) =
                [kind |-> Str("resp"), req_id |-> Num(123), msg |-> Str("result"),
                 code |-> Num(400),
                 msg_data |-> Obj([code |-> Str("BAD_REQUEST"),
                                   message |-> Str("Missing field: foobar")])]
    /\ last.op = "WsResponse_not_found"
       => last.ret =
             WsResponse_error(last.args.req_id, 404,
                 WsResultMsgData_new("NOT_FOUND", last.args.message))

C8_Witness ==
    /\ last.op = "WsResponse_missing_field"
    /\ last.args.field = "foobar"
    /\ last.ret.code = 400
    /\ last.ret.msg_data[1].o.message = Str("Missing field: foobar")

(***************************************************************************)
(* C9: WsResponse::result(req_id, code) returns an envelope with kind      *)
(* "resp", msg "result", the given req_id and code and no payload: its     *)
(* serialized form, also after conversion to WsMessage, has no msg_data    *)
(* key.                                                                    *)
(***************************************************************************)
C9_ResultResponse ==
    /\ last.op = "WsResponse_result"
       => /\ IsWsResponse(last.ret)
          /\ LastJson = [kind |-> Str("resp"),
                         req_id |-> Num(last.args.req_id),
                         msg |-> Str("result"),
                         code |-> Num(last.args.code)]
    /\ (last.op = "WsMessage_from_WsResponse" /\ last.args.r.msg_data = None)
       => LastJson = [kind |-> Str("resp"),
                      req_id |-> Num(last.args.r.req_id),
                      msg |-> Str("result"),
                      code |-> Num(last.args.r.code)]

C9_Witness ==
    /\ last.op = "WsResponse_result"
    /\ last.args.code = 0
    /\ last.ret.msg_data = None
    /\ "msg_data" \notin DOMAIN LastJson

(***************************************************************************)
(* C10: WsMessage::event(msg, cat, payload) returns an envelope that       *)
(* serializes to kind "event", the given msg, the given category (no cat   *)
(* key when none is given), msg_data equal to the payload and ts, the      *)
(* clock value read during the call, and to no id, req_id or code; ts is   *)
(* not earlier than a clock reading taken before the call.                 *)
(***************************************************************************)
CatJson(a) ==
    CASE a = [opt |-> None] -> EmptyMap
      [] a = [bare |-> "Device"] -> "cat" :> Str("DEVICE")
      [] a = [opt |-> Some("Entity")] -> "cat" :> Str("ENTITY")
      [] a = [bare |-> "Ui"] -> "cat" :> Str("UI")

\* the envelope itself: every part of the claim but the comparison with an
\* earlier clock reading
C10_EventShape ==
    last.op = "WsMessage_event"
    => /\ IsWsMessage(last.ret)
       /\ last.ret.ts = Some(last.args.now)
       /\ LastJson = [kind |-> Str("event"),
                      msg |-> Str(last.args.msg),
                      ts |-> Serialize_DateTime(last.args.now),
                      msg_data |-> last.args.msg_data]
                     @@ CatJson(last.args.cat)

C10_EventEnvelope ==
    /\ C10_EventShape
    /\ (last.op = "WsMessage_event" /\ IsSome(last.args.before))
       => Parse_DateTime(LastJson.ts) >= last.args.before[1]

(***************************************************************************)
(* C11: across any sequence of event constructions the ts values are       *)
(* non-decreasing in construction order: an event built after another      *)
(* never carries a ts earlier than the clock value the earlier event       *)
(* recorded.                                                               *)
(***************************************************************************)
C11_TsMonotone ==
    [][(last.op = "WsMessage_event" /\ last'.op = "WsMessage_event")
       => last'.ret.ts[1] >= last.ret.ts[1]]_vars

(***************************************************************************)
(* The wire operations as pure functions: Init draws one call with its     *)
(* arguments, the action of that operation applies it.                     *)
(***************************************************************************)
Returned == "ret" \in DOMAIN last

\* the JSON values the payloads of the model convert to
PayloadValues == { to_value(p).v : p \in { q \in Payloads : Representable(q) } }
OptValues == { None } \cup { Some(v) : v \in PayloadValues }

\* the request and response envelopes the constructors return
RepresentablePayloads == { p \in Payloads : Representable(p) }

BuiltRequests ==
    { WsMessage_simple_request(i, m) : i \in Ids, m \in Msgs }
    \cup { WsMessage_request(i, m, p).v : i \in Ids, m \in Msgs, p \in RepresentablePayloads }
    \cup { WsRequest_new(i, m, p).v : i \in Ids, m \in Msgs, p \in RepresentablePayloads }

BuiltResponses ==
    { WsMessage_response_json(i, m, v) : i \in Ids, m \in Msgs, v \in JsonValues }
    \cup { WsMessage_response(i, m, p) : i \in Ids, m \in Msgs, p \in Payloads }
    \cup { WsMessage_error(i, c, d) : i \in Ids, c \in Codes, d \in ResultDatas }
    \cup { WsResponse_new(i, m, p) : i \in Ids, m \in Msgs, p \in Payloads }
    \cup { WsResponse_error(i, c, d) : i \in Ids, c \in Codes, d \in ResultDatas }
    \cup { WsResponse_missing_field(i, f) : i \in Ids, f \in Fields }
    \cup { WsResponse_not_found(i, m) : i \in Ids, m \in Messages }
    \cup { WsResponse_result(i, c) : i \in Ids, c \in Codes }

BuiltEnvelopes == BuiltRequests \cup BuiltResponses

\* strict envelopes as struct literals (all fields are public)
StrictRequests ==
    { [kind |-> k, id |-> i, msg |-> m, msg_data |-> d] :
        k \in {"req", "other"}, i \in Ids, m \in Msgs, d \in OptValues }
    \cup { e \in BuiltRequests : IsWsRequest(e) }

StrictResponses ==
    { [kind |-> k, req_id |-> i, msg |-> m, code |-> c, msg_data |-> d] :
        k \in {"resp", "other"}, i \in Ids, m \in Msgs, c \in Codes, d \in OptValues }
    \cup { e \in BuiltResponses : IsWsResponse(e) }

ConvertWsRequest ==
    /\ ~Returned
    /\ last.op = "WsMessage_from_WsRequest"
    /\ last' = [op |-> last.op, args |-> last.args,
                ret |-> WsMessage_from_WsRequest(last.args.r)]
    /\ UNCHANGED <<clock, reading, sentIds, respIds, calls>>

ConvertWsResponse ==
    /\ ~Returned
    /\ last.op = "WsMessage_from_WsResponse"
    /\ last' = [op |-> last.op, args |-> last.args,
                ret |-> WsMessage_from_WsResponse(last.args.r)]
    /\ UNCHANGED <<clock, reading, sentIds, respIds, calls>>

(***************************************************************************)
(* serde_json::from_value::<WsMessage> (the derived Deserialize impl):     *)
(* every typed field is an Option, a missing key or a null value gives     *)
(* None, a value of the wrong type is an error, and the keys that are no   *)
(* field of the struct are collected in the flattened `extra`.             *)
(***************************************************************************)
KnownKeys == {"kind", "id", "req_id", "msg", "code", "cat", "ts", "msg_data"}

\* the entry of key k, if any
Entry(o, k) == IF k \in DOMAIN o THEN Some(o[k]) ELSE None

IsNone(f) == f = None \/ f[1] = Null

De_OptString(f) ==
    IF IsNone(f) THEN Ok(None)
    ELSE IF f[1].t = "str" THEN Ok(Some(f[1].s))
    ELSE Err("invalid type")

De_OptU32(f) ==
    IF IsNone(f) THEN Ok(None)
    ELSE IF f[1].t = "num" /\ f[1].n >= 0 THEN Ok(Some(f[1].n))
    ELSE Err("invalid type")

De_OptU16(f) ==
    IF IsNone(f) THEN Ok(None)
    ELSE IF f[1].t = "num" /\ f[1].n >= 0 /\ f[1].n <= U16Max THEN Ok(Some(f[1].n))
    ELSE Err("invalid value")

De_OptCat(f) ==
    IF IsNone(f) THEN Ok(None)
    ELSE IF \E c \in EventCategory : Serialize_EventCategory(c) = f[1]
    THEN Ok(Some(CHOOSE c \in EventCategory : Serialize_EventCategory(c) = f[1]))
    ELSE Err("unknown variant")

De_OptTs(f) ==
    IF IsNone(f) THEN Ok(None)
    ELSE IF \E t \in 0..59 : Serialize_DateTime(t) = f[1]
    THEN Ok(Some(Parse_DateTime(f[1])))
    ELSE Err("invalid value")

De_OptValue(f) == IF IsNone(f) THEN Ok(None) ELSE Ok(f)

\* mutant: the flattened map collects every key, the typed ones too
Deserialize_WsMessage_CollectsAll(o) ==
    LET kind == De_OptString(Entry(o, "kind"))
        id == De_OptU32(Entry(o, "id"))
        req_id == De_OptU32(Entry(o, "req_id"))
        msg == De_OptString(Entry(o, "msg"))
        code == De_OptU16(Entry(o, "code"))
        cat == De_OptCat(Entry(o, "cat"))
        ts == De_OptTs(Entry(o, "ts"))
        msg_data == De_OptValue(Entry(o, "msg_data"))
    IN  IF /\ kind.ok /\ id.ok /\ req_id.ok /\ msg.ok
           /\ code.ok /\ cat.ok /\ ts.ok /\ msg_data.ok
        THEN Ok([kind |-> kind.v, id |-> id.v, req_id |-> req_id.v, msg |-> msg.v,
                 code |-> code.v, cat |-> cat.v, ts |-> ts.v,
                 msg_data |-> msg_data.v,
                 extra |-> o])
        ELSE Err("invalid type")

Deserialize_WsMessage(o) ==
    LET kind == De_OptString(Entry(o, "kind"))
        id == De_OptU32(Entry(o, "id"))
        req_id == De_OptU32(Entry(o, "req_id"))
        msg == De_OptString(Entry(o, "msg"))
        code == De_OptU16(Entry(o, "code"))
        cat == De_OptCat(Entry(o, "cat"))
        ts == De_OptTs(Entry(o, "ts"))
        msg_data == De_OptValue(Entry(o, "msg_data"))
    IN  IF /\ kind.ok /\ id.ok /\ req_id.ok /\ msg.ok
           /\ code.ok /\ cat.ok /\ ts.ok /\ msg_data.ok
        THEN Ok([kind |-> kind.v, id |-> id.v, req_id |-> req_id.v, msg |-> msg.v,
                 code |-> code.v, cat |-> cat.v, ts |-> ts.v,
                 msg_data |-> msg_data.v,
                 extra |-> [k \in DOMAIN o \ KnownKeys |-> o[k]]])
        ELSE Err("invalid type")

\* serde_json::to_value of an envelope of any of the three types
Serialize_Envelope(e) ==
    CASE IsWsMessage(e) -> Serialize_WsMessage(e)
      [] IsWsRequest(e) -> Serialize_WsRequest(e)
      [] IsWsResponse(e) -> Serialize_WsResponse(e)

\* the envelope is serialized and the JSON read back as a WsMessage
RoundTrip ==
    /\ ~Returned
    /\ last.op = "round_trip"
    /\ last' = [op |-> last.op, args |-> last.args,
                ret |-> Deserialize_WsMessage(Serialize_Envelope(last.args.env))]
    /\ UNCHANGED <<clock, reading, sentIds, respIds, calls>>

(***************************************************************************)
(* JSON objects received from a peer: at most MaxKeys top-level keys, each *)
(* with a value of the right type, a null or a value of a wrong type.      *)
(***************************************************************************)
MaxKeys == 3

AllKeys == KnownKeys \cup {"bar", "baz"}

KeyValues(k) ==
    CASE k = "kind" -> {Str("req"), Null, Num(1)}
      [] k = "id" -> {Num(123), Null, Str("123")}
      [] k = "req_id" -> {Num(0), Num(-1)}
      [] k = "msg" -> {Str("test")}
      [] k = "code" -> {Num(200), Num(U16Max + 1)}
      [] k = "cat" -> {Str("DEVICE"), Str("device")}
      [] k = "ts" -> {Serialize_DateTime(1), Str("yesterday")}
      [] k = "msg_data" -> {Obj([foo |-> Str("bar")]), Null}
      [] k = "bar" -> {Str("foo"), Null}
      [] k = "baz" -> {Num(1)}

AllValues == UNION { KeyValues(k) : k \in AllKeys }

JsonObjects ==
    UNION { { o \in [D -> AllValues] : \A k \in D : o[k] \in KeyValues(k) } :
            D \in { E \in SUBSET AllKeys : Cardinality(E) <= MaxKeys } }

ParseObject ==
    /\ ~Returned
    /\ last.op = "from_value"
    /\ last' = [op |-> last.op, args |-> last.args,
                ret |-> Deserialize_WsMessage(last.args.json)]
    /\ UNCHANGED <<clock, reading, sentIds, respIds, calls>>

WireCalls ==
    { [op |-> "WsMessage_from_WsRequest", args |-> [r |-> r]] : r \in StrictRequests }
    \cup { [op |-> "WsMessage_from_WsResponse", args |-> [r |-> r]] : r \in StrictResponses }
    \cup { [op |-> "round_trip", args |-> [env |-> e]] : e \in BuiltEnvelopes }
    \cup { [op |-> "from_value", args |-> [json |-> o]] : o \in JsonObjects }

InitWire ==
    /\ clock = 0
    /\ reading = None
    /\ sentIds = {}
    /\ respIds = {}
    /\ calls = NoCalls
    /\ last \in WireCalls

NextWire ==
    \/ ConvertWsRequest
    \/ ConvertWsResponse
    \/ RoundTrip
    \/ ParseObject

SpecWire == InitWire /\ [][NextWire]_vars

(***************************************************************************)
(* C12: converting a strict envelope to the lenient form is lossless:      *)
(* WsMessage::from(r) serializes to the same JSON object as the WsRequest  *)
(* or WsResponse r; kind, id or req_id, msg, code and msg_data are copied  *)
(* with their values, an absent msg_data stays absent and no other field   *)
(* is set.                                                                 *)
(***************************************************************************)
C12_LosslessWidening ==
    /\ (Returned /\ last.op = "WsMessage_from_WsRequest")
       => /\ Serialize_WsMessage(last.ret) = Serialize_WsRequest(last.args.r)
          /\ last.ret = [kind |-> Some(last.args.r.kind),
                         id |-> Some(last.args.r.id),
                         req_id |-> None,
                         msg |-> Some(last.args.r.msg),
                         code |-> None, cat |-> None, ts |-> None,
                         msg_data |-> last.args.r.msg_data,
                         extra |-> EmptyMap]
    /\ (Returned /\ last.op = "WsMessage_from_WsResponse")
       => /\ Serialize_WsMessage(last.ret) = Serialize_WsResponse(last.args.r)
          /\ last.ret = [kind |-> Some(last.args.r.kind),
                         id |-> None,
                         req_id |-> Some(last.args.r.req_id),
                         msg |-> Some(last.args.r.msg),
                         code |-> Some(last.args.r.code),
                         cat |-> None, ts |-> None,
                         msg_data |-> last.args.r.msg_data,
                         extra |-> EmptyMap]

C12_Witness ==
    /\ Returned
    /\ last.op = "WsMessage_from_WsResponse"
    /\ last.args.r.msg_data = None
    /\ last.args.r.code = U16Max
    /\ last.ret.msg_data = None
    /\ last.ret.code = Some(U16Max)

(***************************************************************************)
(* C13: round trip: for every request or response envelope built by the    *)
(* constructors, serializing it and deserializing the JSON into WsMessage  *)
(* gives a value in which every field present in the original is present   *)
(* and equal, every absent field is None and extra is empty.               *)
(***************************************************************************)
\* the fields of an envelope, in the lenient form
Lenient(e) ==
    CASE IsWsMessage(e) -> e
      [] IsWsRequest(e) -> WsMessage_from_WsRequest(e)
      [] IsWsResponse(e) -> WsMessage_from_WsResponse(e)

C13_RoundTrip ==
    (Returned /\ last.op = "round_trip")
    => /\ last.ret.ok
       /\ last.ret.v = Lenient(last.args.env)

(***************************************************************************)
(* C14: lenient parsing of a JSON object into WsMessage never fails for    *)
(* lack of a field and never discards a top-level key: each recognised key *)
(* lands in its typed field and not in extra, each unrecognised key lands  *)
(* in extra with its value, each recognised key missing from the input is  *)
(* None.                                                                   *)
(***************************************************************************)
\* a value of the type of field k
WellTyped(k, v) ==
    CASE k \in {"kind", "msg"} -> v.t = "str"
      [] k \in {"id", "req_id"} -> v.t = "num" /\ v.n >= 0
      [] k = "code" -> v.t = "num" /\ v.n >= 0 /\ v.n <= U16Max
      [] k = "cat" -> v \in {Str("DEVICE"), Str("ENTITY"), Str("REMOTE"), Str("UI")}
      [] k = "ts" -> v \in { Serialize_DateTime(t) : t \in 0..59 }
      [] k = "msg_data" -> TRUE

\* the typed fields of m, as they serialize
TypedJson(m) == Serialize_WsMessage([m EXCEPT !.extra = EmptyMap])

\* the typed field k of m holds the value v
Holds(m, k, v) == m[k] # None /\ k \in DOMAIN TypedJson(m) /\ TypedJson(m)[k] = v

C14_Unrecognised(o, m) ==
    /\ \A k \in DOMAIN o \cap KnownKeys : k \notin DOMAIN m.extra
    /\ \A k \in DOMAIN o \ KnownKeys : k \in DOMAIN m.extra /\ m.extra[k] = o[k]
    /\ DOMAIN m.extra \subseteq DOMAIN o
    /\ \A k \in KnownKeys \ DOMAIN o : m[k] = None

\* the claim as stated
C14_LenientParse ==
    (Returned /\ last.op = "from_value")
    => /\ ~last.ret.ok
          => \E k \in DOMAIN last.args.json \cap KnownKeys :
                ~WellTyped(k, last.args.json[k])
       /\ last.ret.ok
          => /\ \A k \in DOMAIN last.args.json \cap KnownKeys :
                    Holds(last.ret.v, k, last.args.json[k])
             /\ C14_Unrecognised(last.args.json, last.ret.v)

\* the claim with null values told apart: a recognised key whose value is
\* null is read as None, and parsing fails exactly when a recognised key holds
\* a non-null value that is not of its field's type
C14_LenientParseNull ==
    (Returned /\ last.op = "from_value")
    => /\ last.ret.ok
          <=> \A k \in DOMAIN last.args.json \cap KnownKeys :
                 \/ last.args.json[k] = Null
                 \/ WellTyped(k, last.args.json[k])
       /\ last.ret.ok
          => /\ \A k \in DOMAIN last.args.json \cap KnownKeys :
                    IF last.args.json[k] = Null
                    THEN last.ret.v[k] = None
                    ELSE Holds(last.ret.v, k, last.args.json[k])
             /\ C14_Unrecognised(last.args.json, last.ret.v)

C14_Witness ==
    /\ Returned
    /\ last.op = "from_value"
    /\ last.args.json = [kind |-> Null, id |-> Num(123), bar |-> Null]
    /\ last.ret.ok
    /\ last.ret.v.kind = None
    /\ last.ret.v.id = Some(123)
    /\ last.ret.v.extra = [bar |-> Null]

(***************************************************************************)
(* util.rs: text_from_language_map                                         *)
(***************************************************************************)
\* a HashMap<String, String> is the sequence of its (k, v) entries in the
\* order map.iter() yields them; no key occurs twice
MaxMapSize == 4

\* the language dictionary of the tests
test_languages ==
    [en |-> "English fallback", de |-> "German fallback", de_DE |-> "German",
     de_CH |-> "Swiss German", en_UK |-> "UK English", en_US |-> "US English",
     en_AU |-> "AU English", fr_FR |-> "French"]

LangKeys == DOMAIN test_languages

\* requested languages: the ones of the tests, the empty one, ones with a
\* leading, trailing or second separator
Langs == {"en_UK", "de_CH", "de_DE", "de_AT", "fr_CA", "it", "de", "en", "",
          "_", "de_", "de_CH_x"}

Injective(f) == \A i, j \in DOMAIN f : f[i] = f[j] => i = j

HashMaps ==
    UNION { { [i \in 1..n |-> [k |-> o[i], v |-> test_languages[o[i]]]] :
              o \in { f \in [1..n -> LangKeys] : Injective(f) } } :
            n \in 0..MaxMapSize }

\* str::find: the index of the first c in s, 0 if there is none
find(s, c) ==
    IF \E i \in 1..Len(s) : SubSeq(s, i, i) = c
    THEN CHOOSE i \in 1..Len(s) :
            /\ SubSeq(s, i, i) = c
            /\ \A j \in 1..(i - 1) : SubSeq(s, j, j) # c
    ELSE 0

\* mutant: splits at the last separator
split_once_AtLast(s, c) ==
    IF \E i \in 1..Len(s) : SubSeq(s, i, i) = c
    THEN LET i == CHOOSE i \in 1..Len(s) :
                    /\ SubSeq(s, i, i) = c
                    /\ \A j \in (i + 1)..Len(s) : SubSeq(s, j, j) # c
         IN  Some(<<SubSeq(s, 1, i - 1), SubSeq(s, i + 1, Len(s))>>)
    ELSE None

split_once(s, c) ==
    IF find(s, c) = 0
    THEN None
    ELSE Some(<<SubSeq(s, 1, find(s, c) - 1), SubSeq(s, find(s, c) + 1, Len(s))>>)

starts_with(s, prefix) ==
    /\ Len(s) >= Len(prefix)
    /\ SubSeq(s, 1, Len(prefix)) = prefix

\* HashMap::get
map_get(map, key) ==
    IF \E i \in 1..Len(map) : map[i].k = key
    THEN Some(map[CHOOSE i \in 1..Len(map) : map[i].k = key].v)
    ELSE None

\* map.iter().find_map(|(k, v)| if matches(k) { Some(v) } else { None }),
\* matching the set of the keys the closure accepts
find_map(map, matching) ==
    IF \E i \in 1..Len(map) : map[i].k \in matching
    THEN Some(map[CHOOSE i \in 1..Len(map) :
                    /\ map[i].k \in matching
                    /\ \A j \in 1..(i - 1) : map[j].k \notin matching].v)
    ELSE None

\* Option::or_else
or_else(a, b) == IF a # None THEN a ELSE b

\* mutant: a language without separator is its own short language
short_lang_IsLang(lang) ==
    IF split_once(lang, "_") = None THEN lang ELSE split_once(lang, "_")[1][1]

short_lang(lang) ==
    IF split_once(lang, "_") = None THEN "en" ELSE split_once(lang, "_")[1][1]

\* mutant: the first lookup is by the short language
direct_match_Short(map, lang) == map_get(map, short_lang(lang))

\* direct match first
direct_match(map, lang) == map_get(map, lang)

\* mutant: no language fallback
language_fallback_None(map, short) == None

\* if not found try language fallback
language_fallback(map, short) ==
    find_map(map, { k \in LangKeys : k = short })

\* mutant: no country variant
country_variant_None(map, short) == None

\* if not found return first matching country variant (random)
country_variant(map, short) ==
    find_map(map, { k \in LangKeys : starts_with(k, short \o "_") })

\* mutant: no English
english_None(map) == None

\* mutant: the English lookup takes the entry that iterates first
english_Any(map) == IF Len(map) > 0 THEN Some(map[1].v) ELSE None

\* English
english(map) == map_get(map, "en")

\* mutant: no fallback to the first entry
first_entry_None(map) == None

\* fallback: first entry in language map
first_entry(map) == IF Len(map) > 0 THEN Some(map[1].v) ELSE None

text_from_language_map(map, lang) ==
    IF map # None
    THEN or_else(direct_match(map[1], lang),
         or_else(language_fallback(map[1], short_lang(lang)),
         or_else(country_variant(map[1], short_lang(lang)),
         or_else(english(map[1]),
                 first_entry(map[1])))))
    ELSE None

LangCalls ==
    { [op |-> "text_from_language_map", args |-> [map |-> mp, lang |-> l]] :
        mp \in { None } \cup { Some(h) : h \in HashMaps }, l \in Langs }

InitLang ==
    /\ clock = 0
    /\ reading = None
    /\ sentIds = {}
    /\ respIds = {}
    /\ calls = NoCalls
    /\ last \in LangCalls

LookupText ==
    /\ ~Returned
    /\ last.op = "text_from_language_map"
    /\ last' = [op |-> last.op, args |-> last.args,
                ret |-> text_from_language_map(last.args.map, last.args.lang)]
    /\ UNCHANGED <<clock, reading, sentIds, respIds, calls>>

NextLang == LookupText

SpecLang == InitLang /\ [][NextLang]_vars

\* the lookup has returned for a present map
Looked == Returned /\ last.op = "text_from_language_map" /\ last.args.map # None

Keys(map) == { map[i].k : i \in 1..Len(map) }

TextOf(map, key) == map[CHOOSE i \in 1..Len(map) : map[i].k = key].v

HasSeparator(lang) == \E i \in 1..Len(lang) : SubSeq(lang, i, i) = "_"

\* the part of lang before its first separator
BaseOf(lang) ==
    CHOOSE b \in { SubSeq(lang, 1, i) : i \in 0..Len(lang) } :
        /\ ~HasSeparator(b)
        /\ starts_with(lang, b \o "_")

\* the keys of the country variants of base
Variants(map, base) == { k \in Keys(map) : starts_with(k, base \o "_") }

(***************************************************************************)
(* C15: step 1: whenever the map contains the full requested tag as a key, *)
(* the result is the text of exactly that key, whatever other keys the map *)
(* holds.                                                                  *)
(***************************************************************************)
C15_ExactMatch ==
    (Looked /\ last.args.lang \in Keys(last.args.map[1]))
    => last.ret = Some(TextOf(last.args.map[1], last.args.lang))

C15_Witness ==
    /\ Looked
    /\ last.args.lang = "en_UK"
    /\ {"en", "en_UK", "en_US", "de"} \subseteq Keys(last.args.map[1])
    /\ last.args.map[1][1].k = "en"
    /\ last.ret = Some("UK English")

(***************************************************************************)
(* C16: step 2 before step 3: for a tag <base>_<country> that is not a     *)
(* key, if the map contains the key <base> the result is the text of       *)
(* <base>, even with other country variants and en present; the base is    *)
(* the part of the tag before its first '_'.                               *)
(***************************************************************************)
C16_BaseBeforeVariant ==
    (/\ Looked
     /\ HasSeparator(last.args.lang)
     /\ last.args.lang \notin Keys(last.args.map[1])
     /\ BaseOf(last.args.lang) \in Keys(last.args.map[1]))
    => last.ret = Some(TextOf(last.args.map[1], BaseOf(last.args.lang)))

C16_Witness ==
    /\ Looked
    /\ last.args.lang = "de_AT"
    /\ Keys(last.args.map[1]) = {"de", "de_DE", "de_CH", "en"}
    /\ last.args.map[1][1].k = "de_DE"
    /\ last.ret = Some("German fallback")

(***************************************************************************)
(* C17: step 3 before step 4: for a tag <base>_<country> where neither the *)
(* tag nor <base> is a key, if some key starts with "<base>_" the result   *)
(* is the text of one of those keys, never the text of en or of a key of   *)
(* another language.                                                       *)
(***************************************************************************)
C17_VariantBeforeEnglish ==
    (/\ Looked
     /\ HasSeparator(last.args.lang)
     /\ last.args.lang \notin Keys(last.args.map[1])
     /\ BaseOf(last.args.lang) \notin Keys(last.args.map[1])
     /\ Variants(last.args.map[1], BaseOf(last.args.lang)) # {})
    => /\ last.ret # None
       /\ \E k \in Variants(last.args.map[1], BaseOf(last.args.lang)) :
             last.ret[1] = TextOf(last.args.map[1], k)
       /\ \A k \in Keys(last.args.map[1])
                   \ Variants(last.args.map[1], BaseOf(last.args.lang)) :
             last.ret[1] # TextOf(last.args.map[1], k)

C17_Witness ==
    /\ Looked
    /\ last.args.lang = "fr_CA"
    /\ {"en", "fr_FR"} \subseteq Keys(last.args.map[1])
    /\ last.args.map[1][1].k = "en"
    /\ last.ret = Some("French")

\* the base the lookup falls back to: "en" for a tag without separator
FallbackBase(lang) == IF HasSeparator(lang) THEN BaseOf(lang) ELSE "en"

(***************************************************************************)
(* C18: step 4 before step 5: when the map has no exact key, no            *)
(* base-language key and no key starting with "<base>_", and it contains   *)
(* the key "en", the result is the text of "en", never another entry.      *)
(***************************************************************************)
C18_EnglishBeforeAny ==
    (/\ Looked
     /\ last.args.lang \notin Keys(last.args.map[1])
     /\ FallbackBase(last.args.lang) \notin Keys(last.args.map[1])
     /\ Variants(last.args.map[1], FallbackBase(last.args.lang)) = {}
     /\ "en" \in Keys(last.args.map[1]))
    => last.ret = Some(TextOf(last.args.map[1], "en"))

C18_Witness ==
    /\ Looked
    /\ last.args.lang = "fr_CA"
    /\ Keys(last.args.map[1]) = {"de", "de_CH", "en", "en_US"}
    /\ last.args.map[1][1].k = "de_CH"
    /\ last.ret = Some("English fallback")

C20_NoneIffEmpty ==
    (Returned /\ last.op = "text_from_language_map")
    => /\ last.ret = None
          <=> (last.args.map = None \/ last.args.map = Some(<<>>))
       /\ last.ret # None
          => \E k \in Keys(last.args.map[1]) :
                last.ret[1] = TextOf(last.args.map[1], k)

C20_Witness ==
    /\ Looked
    /\ last.args.lang = ""
    /\ Keys(last.args.map[1]) = {"fr_FR", "de_CH"}
    /\ last.args.map[1][1].k = "fr_FR"
    /\ last.ret = Some("French")

(***************************************************************************)
(* entity.rs: the string and the JSON conversions of the entity enums      *)
(***************************************************************************)
Enums == {"MediaPlayerFeature", "MediaPlayerCommand", "MediaPlayerDeviceClass",
          "MediaType"}

MediaPlayerFeature ==
    {"OnOff", "Toggle", "Volume", "VolumeUpDown", "MuteToggle", "Mute",
     "Unmute", "PlayPause", "Stop", "Next", "Previous", "FastForward",
     "Rewind", "Repeat", "Shuffle", "Seek", "MediaDuration",
     "MediaPosition", "MediaTitle", "MediaArtist", "MediaAlbum",
     "MediaImageUrl", "MediaType", "DPad", "Numpad", "Home", "Menu",
     "ContextMenu", "Guide", "Info", "ColorButtons", "ChannelSwitcher",
     "SelectSource", "SelectSoundMode", "Eject", "OpenClose", "AudioTrack",
     "Subtitle", "Record", "Settings"}

MediaPlayerCommand ==
    {"On", "Off", "Toggle", "PlayPause", "Stop", "Previous", "Next",
     "FastForward", "Rewind", "Seek", "Volume", "VolumeUp", "VolumeDown",
     "MuteToggle", "Mute", "Unmute", "Repeat", "Shuffle", "ChannelUp",
     "ChannelDown", "CursorUp", "CursorDown", "CursorLeft", "CursorRight",
     "CursorEnter", "Digit_0", "Digit_1", "Digit_2", "Digit_3", "Digit_4",
     "Digit_5", "Digit_6", "Digit_7", "Digit_8", "Digit_9", "FunctionRed",
     "FunctionGreen", "FunctionYellow", "FunctionBlue", "Home", "Menu",
     "ContextMenu", "Guide", "Info", "Back", "SelectSource",
     "SelectSoundMode", "Record", "MyRecordings", "Live", "Eject",
     "OpenClose", "AudioTrack", "Subtitle", "Settings"}

MediaPlayerDeviceClass ==
    {"Receiver", "SetTopBox", "Speaker", "StreamingBox", "TV"}

MediaType == {"Music", "Radio", "Tvshow", "Movie", "Video"}

\* intg/ws: the requests of the remote, the responses and the events of the
\* integration driver
R2Request ==
    {"GetDriverVersion", "GetDeviceState", "GetAvailableEntities",
     "SubscribeEvents", "UnsubscribeEvents", "GetEntityStates", "EntityCommand",
     "GetDriverMetadata", "SetupDriver", "SetDriverUserData"}

DriverResponse ==
    {"Result", "DriverVersion", "AvailableEntities", "EntityStates",
     "DriverMetadata"}

DriverEvent ==
    {"AuthRequired", "DeviceState", "EntityChange", "EntityAvailable",
     "EntityRemoved", "DriverSetupChange"}

VariantsOf(e) ==
    CASE e = "R2Request" -> R2Request
      [] e = "DriverResponse" -> DriverResponse
      [] e = "DriverEvent" -> DriverEvent
      [] e = "MediaPlayerFeature" -> MediaPlayerFeature
      [] e = "MediaPlayerCommand" -> MediaPlayerCommand
      [] e = "MediaPlayerDeviceClass" -> MediaPlayerDeviceClass
      [] e = "MediaType" -> MediaType

\* #[serde(rename_all = ..)] and #[strum(serialize_all = ..)] of the enum
rename_all(e) ==
    IF e = "MediaType" THEN "SCREAMING_SNAKE_CASE" ELSE "snake_case"

serialize_all(e) ==
    IF e = "MediaType" THEN "SCREAMING_SNAKE_CASE" ELSE "snake_case"

UpperChars == "ABCDEFGHIJKLMNOPQRSTUVWXYZ"
LowerChars == "abcdefghijklmnopqrstuvwxyz"
DigitChars == "0123456789"

CharAt(s, i) == SubSeq(s, i, i)

IndexIn(chars, c) ==
    IF \E i \in 1..Len(chars) : CharAt(chars, i) = c
    THEN CHOOSE i \in 1..Len(chars) : CharAt(chars, i) = c
    ELSE 0

is_uppercase(c) == IndexIn(UpperChars, c) # 0
is_lowercase(c) == IndexIn(LowerChars, c) # 0
is_alphanumeric(c) ==
    is_uppercase(c) \/ is_lowercase(c) \/ IndexIn(DigitChars, c) # 0

to_ascii_lowercase_char(c) ==
    IF is_uppercase(c) THEN CharAt(LowerChars, IndexIn(UpperChars, c)) ELSE c

to_ascii_uppercase_char(c) ==
    IF is_lowercase(c) THEN CharAt(UpperChars, IndexIn(LowerChars, c)) ELSE c

RECURSIVE to_ascii_lowercase(_)
to_ascii_lowercase(s) ==
    IF s = "" THEN ""
    ELSE to_ascii_lowercase_char(CharAt(s, 1))
         \o to_ascii_lowercase(SubSeq(s, 2, Len(s)))

RECURSIVE to_ascii_uppercase(_)
to_ascii_uppercase(s) ==
    IF s = "" THEN ""
    ELSE to_ascii_uppercase_char(CharAt(s, 1))
         \o to_ascii_uppercase(SubSeq(s, 2, Len(s)))

\* serde's rename rule snake_case: an underscore before every uppercase
\* character but the first, every character lowercased
RECURSIVE serde_snake_from(_, _)
serde_snake_from(variant, i) ==
    IF i > Len(variant) THEN ""
    ELSE (IF i > 1 /\ is_uppercase(CharAt(variant, i)) THEN "_" ELSE "")
         \o to_ascii_lowercase_char(CharAt(variant, i))
         \o serde_snake_from(variant, i + 1)

serde_apply_to_variant(rule, variant) ==
    IF rule = "snake_case"
    THEN serde_snake_from(variant, 1)
    ELSE to_ascii_uppercase(serde_snake_from(variant, 1))

\* heck (strum's serialize_all): the identifier is split at every
\* non-alphanumeric character, each part is split into words at a lowercase
\* to uppercase step and before the last uppercase character of an uppercase
\* run that is followed by a lowercase one
RECURSIVE split_non_alphanumeric(_, _, _)
split_non_alphanumeric(s, i, init) ==
    IF i > Len(s) THEN <<SubSeq(s, init, Len(s))>>
    ELSE IF is_alphanumeric(CharAt(s, i))
    THEN split_non_alphanumeric(s, i + 1, init)
    ELSE <<SubSeq(s, init, i - 1)>> \o split_non_alphanumeric(s, i + 1, i + 1)

RECURSIVE heck_words(_, _, _, _)
heck_words(word, i, init, mode) ==
    IF i > Len(word) THEN <<>>
    ELSE IF i = Len(word) THEN <<SubSeq(word, init, Len(word))>>
    ELSE LET c == CharAt(word, i)
             next == CharAt(word, i + 1)
             next_mode == IF is_lowercase(c) THEN "Lowercase"
                          ELSE IF is_uppercase(c) THEN "Uppercase"
                          ELSE mode
         IN  IF next_mode = "Lowercase" /\ is_uppercase(next)
             THEN <<SubSeq(word, init, i)>>
                  \o heck_words(word, i + 1, i + 1, "Boundary")
             ELSE IF mode = "Uppercase" /\ is_uppercase(c) /\ is_lowercase(next)
             THEN <<SubSeq(word, init, i - 1)>>
                  \o heck_words(word, i + 1, i, "Boundary")
             ELSE heck_words(word, i + 1, init, next_mode)

RECURSIVE heck_all_words(_)
heck_all_words(parts) ==
    IF parts = <<>> THEN <<>>
    ELSE heck_words(parts[1], 1, 1, "Boundary") \o heck_all_words(Tail(parts))

RECURSIVE join(_, _)
join(words, sep) ==
    IF words = <<>> THEN ""
    ELSE IF Len(words) = 1 THEN words[1]
    ELSE words[1] \o sep \o join(Tail(words), sep)

to_snake_case(s) ==
    to_ascii_lowercase(join(heck_all_words(split_non_alphanumeric(s, 1, 1)), "_"))

to_shouty_snake_case(s) ==
    to_ascii_uppercase(join(heck_all_words(split_non_alphanumeric(s, 1, 1)), "_"))

strum_convert_case(rule, variant) ==
    IF rule = "snake_case"
    THEN to_snake_case(variant)
    ELSE to_shouty_snake_case(variant)

\* mutant: no variant is renamed
serde_rename_None(e, v) == None

\* #[serde(rename = ..)] of the variant
serde_rename(e, v) ==
    IF e = "MediaPlayerFeature" /\ v = "DPad" THEN Some("dpad") ELSE None

\* #[strum(serialize = ..)] of the variant
strum_serialize(e, v) ==
    IF e = "MediaPlayerFeature" /\ v = "DPad" THEN Some("dpad") ELSE None

\* the name of variant v in JSON
serde_name(e, v) ==
    IF serde_rename(e, v) # None
    THEN serde_rename(e, v)[1]
    ELSE serde_apply_to_variant(rename_all(e), v)

\* the name of variant v in the string conversions
strum_name(e, v) ==
    IF strum_serialize(e, v) # None
    THEN strum_serialize(e, v)[1]
    ELSE strum_convert_case(serialize_all(e), v)

\* AsRefStr
as_ref(e, v) == strum_name(e, v)

\* Display
to_string(e, v) == strum_name(e, v)

\* EnumString
from_str(e, str) ==
    IF \E v \in VariantsOf(e) : strum_name(e, v) = str
    THEN Ok(CHOOSE v \in VariantsOf(e) : strum_name(e, v) = str)
    ELSE Err("VariantNotFound")

\* Serialize
serialize_enum(e, v) == Str(serde_name(e, v))

\* Deserialize
deserialize_enum(e, json) ==
    IF json.t = "str" /\ \E v \in VariantsOf(e) : serde_name(e, v) = json.s
    THEN Ok(CHOOSE v \in VariantsOf(e) : serde_name(e, v) = json.s)
    ELSE Err("unknown variant")

\* the strings handed to the parsers: every name either path writes, the
\* variant identifiers, and near misses
ParseStrings(e) ==
    { strum_name(e, v) : v \in VariantsOf(e) }
    \cup { serde_name(e, v) : v \in VariantsOf(e) }
    \cup VariantsOf(e)
    \cup {"", "dpad", "d_pad", "tv", "t_v", "digit_0", "digit0", "TVSHOW"}

EnumCalls ==
    UNION { { [op |-> o, args |-> [e |-> e, v |-> v]] :
                o \in {"as_ref", "to_string", "serialize"}, v \in VariantsOf(e) }
            \cup { [op |-> "from_str", args |-> [e |-> e, s |-> str]] :
                     str \in ParseStrings(e) }
            \cup { [op |-> "deserialize", args |-> [e |-> e, json |-> j]] :
                     j \in { Str(str) : str \in ParseStrings(e) }
                           \cup {Null, Num(0)} } :
            e \in Enums }

InitEnum ==
    /\ clock = 0
    /\ reading = None
    /\ sentIds = {}
    /\ respIds = {}
    /\ calls = NoCalls
    /\ last \in EnumCalls

Return(op, ret) ==
    /\ ~Returned
    /\ last.op = op
    /\ last' = [op |-> last.op, args |-> last.args, ret |-> ret]
    /\ UNCHANGED <<clock, reading, sentIds, respIds, calls>>

CallAsRef == Return("as_ref", as_ref(last.args.e, last.args.v))

CallToString == Return("to_string", to_string(last.args.e, last.args.v))

CallFromStr == Return("from_str", from_str(last.args.e, last.args.s))

CallSerialize == Return("serialize", serialize_enum(last.args.e, last.args.v))

CallDeserialize ==
    Return("deserialize", deserialize_enum(last.args.e, last.args.json))

NextEnum ==
    \/ CallAsRef
    \/ CallToString
    \/ CallFromStr
    \/ CallSerialize
    \/ CallDeserialize

SpecEnum == InitEnum /\ [][NextEnum]_vars

(***************************************************************************)
(* C21: MediaPlayerFeature::DPad has the wire string "dpad" on both        *)
(* conversion paths: its string form and its JSON form are "dpad", parsing *)
(* "dpad" from a string or from JSON yields DPad, and "d_pad" is neither   *)
(* produced nor accepted.                                                  *)
(***************************************************************************)
C21_DPadWire ==
    (Returned /\ last.args.e = "MediaPlayerFeature")
    => /\ (last.op \in {"as_ref", "to_string"} /\ last.args.v = "DPad")
          => last.ret = "dpad"
       /\ (last.op = "serialize" /\ last.args.v = "DPad")
          => last.ret = Str("dpad")
       /\ (last.op = "from_str" /\ last.args.s = "dpad")
          => last.ret = Ok("DPad")
       /\ (last.op = "deserialize" /\ last.args.json = Str("dpad"))
          => last.ret = Ok("DPad")
       /\ last.op \in {"as_ref", "to_string"} => last.ret # "d_pad"
       /\ last.op = "serialize" => last.ret # Str("d_pad")
       /\ (last.op = "from_str" /\ last.args.s = "d_pad") => ~last.ret.ok
       /\ (last.op = "deserialize" /\ last.args.json = Str("d_pad"))
          => ~last.ret.ok

C21_Witness ==
    /\ Returned
    /\ last.op = "deserialize"
    /\ last.args.e = "MediaPlayerFeature"
    /\ last.args.json = Str("dpad")
    /\ last.ret = Ok("DPad")

(***************************************************************************)
(* C28: for every variant of every entity enum that derives both           *)
(* conversions, the string of the string conversions (as_ref, Display,     *)
(* from_str) is identical to the string in JSON (serialize, deserialize),  *)
(* so a value written by one path is parsed back to the same variant by    *)
(* the other.                                                              *)
(***************************************************************************)
C28_SameWireString ==
    Returned
    => /\ last.op \in {"as_ref", "to_string"}
          => /\ Str(last.ret) = serialize_enum(last.args.e, last.args.v)
             /\ deserialize_enum(last.args.e, Str(last.ret)) = Ok(last.args.v)
       /\ last.op = "serialize"
          => /\ last.ret.s = as_ref(last.args.e, last.args.v)
             /\ from_str(last.args.e, last.ret.s) = Ok(last.args.v)


(***************************************************************************)
(* lib.rs, intg: validation of identifiers and icon identifiers            *)
(***************************************************************************)
\* the ASCII characters of the classes and of the tested strings, in code
\* point order
Ascii ==
    " -./0123456789:ABCDEFGHIJKLMNOPQRSTUVWXYZ\\_abcdefghijklmnopqrstuvwxyz"

\* a character class is a sequence of items: a range <<lo, hi>> or a literal <<c>>
InItem(c, item) ==
    IF Len(item) = 2
    THEN /\ IndexIn(Ascii, c) # 0
         /\ IndexIn(Ascii, item[1]) <= IndexIn(Ascii, c)
         /\ IndexIn(Ascii, c) <= IndexIn(Ascii, item[2])
    ELSE c = item[1]

InClass(c, class) == \E i \in 1..Len(class) : InItem(c, class[i])

\* ^[class]{min,}$
is_match(re, text) ==
    /\ Len(text) >= re.min
    /\ \A i \in 1..Len(text) : InClass(CharAt(text, i), re.class)

\* r"^[a-zA-Z0-9-_]{1,}$"
REGEX_ID_CHARS ==
    [class |-> << <<"a", "z">>, <<"A", "Z">>, <<"0", "9">>, <<"-">>, <<"_">> >>,
     min |-> 1]

\* r"^[a-zA-Z0-9-_\\.:]{1,}$": in the raw string \\ is an escaped backslash,
\* followed by the literals . and :
REGEX_ICON_ID ==
    [class |-> << <<"a", "z">>, <<"A", "Z">>, <<"0", "9">>, <<"-">>, <<"_">>,
                  <<"\\">>, <<".">>, <<":">> >>,
     min |-> 1]

IdMaxLen == 36
IconMaxLen == 255

\* mutant: the length is not validated
validate_length_Off(min, max, value) == {}

\* #[validate(length(min = .., max = ..))]
validate_length(min, max, value) ==
    IF Len(value) >= min /\ Len(value) <= max THEN {} ELSE {"length"}

\* #[validate(regex(path = ..))]
validate_regex(re, value) ==
    IF is_match(re, value) THEN {} ELSE {"regex"}

\* the validated fields and their rules; a field without min has min 0
IdFields ==
    {"AvailableIntgEntity.entity_id", "AvailableIntgEntity.device_id",
     "IntegrationDriverUpdate.driver_id", "IntegrationUpdate.device_id"}

ValidatedFields == IdFields \cup {"IntegrationUpdate.icon"}

OptionalFields == ValidatedFields \ {"AvailableIntgEntity.entity_id"}

\* the errors of one field; value is Some(text) for a String field and an
\* Option<String> for the optional fields, whose None is not validated
validate_field(field, value) ==
    CASE field = "AvailableIntgEntity.entity_id"
           -> validate_length(1, IdMaxLen, value[1])
              \cup validate_regex(REGEX_ID_CHARS, value[1])
      [] field \in IdFields \ {"AvailableIntgEntity.entity_id"}
           -> IF value = None THEN {}
              ELSE validate_length(0, IdMaxLen, value[1])
                   \cup validate_regex(REGEX_ID_CHARS, value[1])
      [] field = "IntegrationUpdate.icon"
           -> IF value = None THEN {}
              ELSE validate_length(0, IconMaxLen, value[1])
                   \cup validate_regex(REGEX_ICON_ID, value[1])

MaxStrLen == 2

\* characters in and around the classes
TestChars == {"a", "Z", "0", "9", "-", "_", ".", ":", "\\", " ", "/", "\n"}

RECURSIVE StringsOfLen(_)
StringsOfLen(n) ==
    IF n = 0 THEN {""}
    ELSE { str \o c : str \in StringsOfLen(n - 1), c \in TestChars }

RECURSIVE Repeat(_, _)
Repeat(c, n) == IF n = 0 THEN "" ELSE c \o Repeat(c, n - 1)

\* short strings of all test characters, and strings around the length limits
TestStrings ==
    UNION { StringsOfLen(n) : n \in 0..MaxStrLen }
    \cup { Repeat("a", n) \o tail :
             n \in {IdMaxLen - 1, IdMaxLen, IconMaxLen - 1, IconMaxLen},
             tail \in {"", "_", ".", "\\", "/"} }

ValidateCalls ==
    { [op |-> "validate", args |-> [field |-> f, text |-> v]] :
        f \in {"AvailableIntgEntity.entity_id"}, v \in TestStrings }
    \cup { [op |-> "validate", args |-> [field |-> f, value |-> v]] :
             f \in OptionalFields,
             v \in {None} \cup { Some(str) : str \in TestStrings } }

\* the validated text, None for an absent optional field
ValidatedText(call) ==
    IF call.args.field \in OptionalFields
    THEN call.args.value
    ELSE Some(call.args.text)

InitValidate ==
    /\ clock = 0
    /\ reading = None
    /\ sentIds = {}
    /\ respIds = {}
    /\ calls = NoCalls
    /\ last \in ValidateCalls

Validate ==
    Return("validate", validate_field(last.args.field, ValidatedText(last)))

NextValidate == Validate

SpecValidate == InitValidate /\ [][NextValidate]_vars

IsIdChar(c) == is_alphanumeric(c) \/ c = "_" \/ c = "-"

(***************************************************************************)
(* C22: an identifier field validated with the id rule passes validation   *)
(* if and only if it has between 1 and 36 characters and every character   *)
(* is in [A-Za-z0-9_-]; an absent optional id passes.                      *)
(***************************************************************************)
C22_IdRule ==
    (Returned /\ last.op = "validate" /\ last.args.field \in IdFields)
    => IF ValidatedText(last) = None
       THEN last.ret = {}
       ELSE last.ret = {}
            <=> /\ Len(ValidatedText(last)[1]) >= 1
                /\ Len(ValidatedText(last)[1]) <= 36
                /\ \A i \in 1..Len(ValidatedText(last)[1]) :
                      IsIdChar(CharAt(ValidatedText(last)[1], i))

C22_Witness ==
    /\ Returned
    /\ last.op = "validate"
    /\ last.args.field = "IntegrationUpdate.device_id"
    /\ last.args.value = Some(Repeat("a", 36) \o "_")
    /\ last.ret = {"length"}

(***************************************************************************)
(* C23: the characters accepted in an icon id (REGEX_ICON_ID, applied to   *)
(* IntegrationUpdate.icon) are exactly the id characters [A-Za-z0-9_-]     *)
(* plus '.' and ':': a non-empty icon id passes the pattern if and only if *)
(* every character is in that set; any other character, a backslash, a     *)
(* space or '/' for example, makes it fail.                                *)
(***************************************************************************)
C23_IconChars ==
    (/\ Returned
     /\ last.op = "validate"
     /\ last.args.field = "IntegrationUpdate.icon"
     /\ last.args.value # None
     /\ last.args.value # Some(""))
    => ("regex" \notin last.ret
        <=> \A i \in 1..Len(last.args.value[1]) :
               \/ IsIdChar(CharAt(last.args.value[1], i))
               \/ CharAt(last.args.value[1], i) \in {".", ":"})


(***************************************************************************)
(* Concurrent calls: each thread runs one call, step by step; the steps of *)
(* different threads interleave. The only state a call shares with         *)
(* another is what it is handed by reference (the language map, never      *)
(* written) and the wall clock.                                            *)
(***************************************************************************)
Threads == {"t1", "t2"}

ConcPayloads == { [ty |-> "Value", value |-> Str("bar")], [ty |-> "FailingSerialize"] }

ConcMaps ==
    { None,
      Some(<<[k |-> "de_CH", v |-> test_languages["de_CH"]],
             [k |-> "en", v |-> test_languages["en"]],
             [k |-> "de_DE", v |-> test_languages["de_DE"]]>>),
      Some(<<[k |-> "fr_FR", v |-> test_languages["fr_FR"]],
             [k |-> "en_US", v |-> test_languages["en_US"]]>>) }

ConcCalls ==
    { [pc |-> "start", op |-> "WsMessage_request",
       args |-> [id |-> i, msg |-> "test_resp", msg_data |-> p]] :
        i \in Ids, p \in ConcPayloads }
    \cup { [pc |-> "start", op |-> "WsMessage_response",
            args |-> [req_id |-> i, msg |-> "test_resp", msg_data |-> p]] :
             i \in Ids, p \in ConcPayloads }
    \cup { [pc |-> "start", op |-> "WsMessage_event",
            args |-> [msg |-> "test_resp", cat |-> c, msg_data |-> Null]] :
             c \in { [bare |-> "Device"], [opt |-> None] } }
    \cup { [pc |-> "start", op |-> "text_from_language_map",
            args |-> [map |-> mp, lang |-> l]] :
             mp \in ConcMaps, l \in {"de_AT", "it"} }

InitConc ==
    /\ clock \in Times
    /\ reading = None
    /\ sentIds = {}
    /\ respIds = {}
    /\ last = NoCall
    /\ calls \in [Threads -> ConcCalls]

\* thread t moves to c; nothing else changes
Step(t, c) ==
    /\ calls' = [calls EXCEPT ![t] = c]
    /\ UNCHANGED <<clock, reading, sentIds, respIds, last>>

Mid(c, local) == [pc |-> "mid", op |-> c.op, args |-> c.args, local |-> local]

Done(c, ret) == [pc |-> "done", op |-> c.op, args |-> c.args, ret |-> ret]

\* mutant: the converted payload is kept in one buffer shared by all threads
Converted_Shared(cs, t) ==
    IF \E u \in Threads : u # t /\ cs[u].pc = "mid" /\ cs[u].op = cs[t].op
    THEN cs[CHOOSE u \in Threads :
                u # t /\ cs[u].pc = "mid" /\ cs[u].op = cs[t].op].local
    ELSE cs[t].local

\* the local `msg_data` of thread t after serde_json::to_value
Converted(cs, t) == cs[t].local

\* serde_json::to_value(msg_data) of request and response
ConvertPayload(t) ==
    /\ calls[t].pc = "start"
    /\ calls[t].op \in {"WsMessage_request", "WsMessage_response"}
    /\ Step(t, Mid(calls[t], to_value(calls[t].args.msg_data)))

\* WsMessage::request after the conversion: `?` returns the error
FinishRequest(t) ==
    /\ calls[t].pc = "mid"
    /\ calls[t].op = "WsMessage_request"
    /\ Step(t, Done(calls[t],
            IF ~Converted(calls, t).ok
            THEN Err(Converted(calls, t).err)
            ELSE Ok([WsMessage_Default EXCEPT
                        !.kind = Some("req"),
                        !.id = Some(calls[t].args.id),
                        !.msg = Some(calls[t].args.msg),
                        !.msg_data = Some(Converted(calls, t).v)])))

\* WsMessage::response after the conversion: the match on its result
FinishResponse(t) ==
    /\ calls[t].pc = "mid"
    /\ calls[t].op = "WsMessage_response"
    /\ Step(t, Done(calls[t],
            IF Converted(calls, t).ok
            THEN [WsMessage_Default EXCEPT
                    !.kind = Some("resp"),
                    !.req_id = Some(calls[t].args.req_id),
                    !.msg = Some(calls[t].args.msg),
                    !.code = Some(200),
                    !.msg_data = Some(Converted(calls, t).v)]
            ELSE [WsMessage_Default EXCEPT
                    !.kind = Some("resp"),
                    !.req_id = Some(calls[t].args.req_id),
                    !.msg = Some("result"),
                    !.code = Some(500),
                    !.msg_data = Some(json_code_message("INTERNAL_ERROR",
                                                        "Error serializing result"))]))

\* WsMessage::event: Utc::now() is read
EventReadClock(t) ==
    /\ calls[t].pc = "start"
    /\ calls[t].op = "WsMessage_event"
    /\ Step(t, Mid(calls[t], clock))

FinishEvent(t) ==
    /\ calls[t].pc = "mid"
    /\ calls[t].op = "WsMessage_event"
    /\ Step(t, Done(calls[t],
            WsMessage_event(calls[t].args.msg, calls[t].args.cat,
                            calls[t].args.msg_data, calls[t].local)))

\* the n-th lookup of the or_else chain
Stage(n, map, lang) ==
    CASE n = 1 -> direct_match(map, lang)
      [] n = 2 -> language_fallback(map, short_lang(lang))
      [] n = 3 -> country_variant(map, short_lang(lang))
      [] n = 4 -> english(map)
      [] n = 5 -> first_entry(map)

\* text_from_language_map: `if let Some(map) = map`
LookupStart(t) ==
    /\ calls[t].pc = "start"
    /\ calls[t].op = "text_from_language_map"
    /\ Step(t, IF calls[t].args.map = None
               THEN Done(calls[t], None)
               ELSE Mid(calls[t], 1))

\* text_from_language_map: one lookup of the chain; the next one runs only
\* if this one found nothing
LookupStage(t) ==
    /\ calls[t].pc = "mid"
    /\ calls[t].op = "text_from_language_map"
    /\ LET r == Stage(calls[t].local, calls[t].args.map[1], calls[t].args.lang)
       IN  Step(t, IF r # None \/ calls[t].local = 5
                   THEN Done(calls[t], r)
                   ELSE Mid(calls[t], calls[t].local + 1))

\* the wall clock changes while calls are in progress
ConcClock ==
    /\ \E t \in Times : t # clock /\ clock' = t
    /\ UNCHANGED <<reading, sentIds, respIds, last, calls>>

NextConc ==
    \/ \E t \in Threads : ConvertPayload(t)
    \/ \E t \in Threads : FinishRequest(t)
    \/ \E t \in Threads : FinishResponse(t)
    \/ \E t \in Threads : EventReadClock(t)
    \/ \E t \in Threads : FinishEvent(t)
    \/ \E t \in Threads : LookupStart(t)
    \/ \E t \in Threads : LookupStage(t)
    \/ ConcClock

SpecConc == InitConc /\ [][NextConc]_vars

\* the result of the call when it runs alone on the same arguments; the ts
\* of an event is the clock value the call read
Alone(c) ==
    CASE c.op = "WsMessage_request"
           -> WsMessage_request(c.args.id, c.args.msg, c.args.msg_data)
      [] c.op = "WsMessage_response"
           -> WsMessage_response(c.args.req_id, c.args.msg, c.args.msg_data)
      [] c.op = "WsMessage_event"
           -> WsMessage_event(c.args.msg, c.args.cat, c.args.msg_data, c.ret.ts[1])
      [] c.op = "text_from_language_map"
           -> text_from_language_map(c.args.map, c.args.lang)

(***************************************************************************)
(* C24: envelope construction and locale resolution need no coordination:  *)
(* under any interleaving of concurrent calls, each call returns the       *)
(* result it returns when run alone on the same arguments (event ts        *)
(* aside); no constructor tracks outstanding request ids: a response is    *)
(* built for any req_id, whether or not a request with that id was built.  *)
(***************************************************************************)
C24_NoCoordination ==
    \A t \in DOMAIN calls :
        calls[t].pc = "done"
        => /\ calls[t].ret = Alone(calls[t])
           /\ calls[t].op = "WsMessage_event" => calls[t].ret.ts[1] \in Times
           /\ calls[t].op = "WsMessage_response"
              => calls[t].ret.req_id = Some(calls[t].args.req_id)

C24_Witness ==
    /\ DOMAIN calls = Threads
    /\ calls["t1"].pc = "done"
    /\ calls["t1"].op = "WsMessage_response"
    /\ calls["t1"].args.req_id = 1
    /\ calls["t1"].args.msg_data = [ty |-> "Value", value |-> Str("bar")]
    /\ calls["t1"].ret.req_id = Some(1)
    /\ calls["t1"].ret.code = Some(200)
    /\ calls["t2"].pc = "done"
    /\ calls["t2"].op = "WsMessage_response"
    /\ calls["t2"].args.msg_data = [ty |-> "FailingSerialize"]
    /\ calls["t2"].ret.code = Some(500)


(***************************************************************************)
(* C25: every envelope produced by a helper constructor, or by converting  *)
(* a constructor-built WsRequest / WsResponse to WsMessage, carries        *)
(* exactly the fields of its kind: "req" has id and no req_id, code, cat,  *)
(* ts; "resp" has req_id and code and no id, cat, ts; "event" has ts and   *)
(* no id, req_id, code; kind is one of req, resp, event and extra is       *)
(* empty.                                                                  *)
(***************************************************************************)
C25_FieldsOfKind ==
    ReturnedEnvelope
    => /\ "kind" \in DOMAIN LastJson
       /\ LastJson.kind \in {Str("req"), Str("resp"), Str("event")}
       /\ LastJson.kind = Str("req")
          => /\ "id" \in DOMAIN LastJson
             /\ DOMAIN LastJson \cap {"req_id", "code", "cat", "ts"} = {}
       /\ LastJson.kind = Str("resp")
          => /\ {"req_id", "code"} \subseteq DOMAIN LastJson
             /\ DOMAIN LastJson \cap {"id", "cat", "ts"} = {}
       /\ LastJson.kind = Str("event")
          => /\ "ts" \in DOMAIN LastJson
             /\ DOMAIN LastJson \cap {"id", "req_id", "code"} = {}
       /\ DOMAIN LastJson \subseteq KnownKeys
       /\ IsWsMessage(LastEnvelope)
          => /\ LastEnvelope.extra = EmptyMap
             /\ IsSome(LastEnvelope.id) <=> LastEnvelope.kind = Some("req")
             /\ IsSome(LastEnvelope.req_id) <=> LastEnvelope.kind = Some("resp")
             /\ IsSome(LastEnvelope.code) <=> LastEnvelope.kind = Some("resp")
             /\ IsSome(LastEnvelope.ts) <=> LastEnvelope.kind = Some("event")
             /\ IsSome(LastEnvelope.cat) => LastEnvelope.kind = Some("event")

C25_Witness ==
    /\ last.op = "WsMessage_from_WsResponse"
    /\ ReturnedEnvelope
    /\ LastEnvelope.kind = Some("resp")
    /\ LastEnvelope.req_id = Some(1)
    /\ LastEnvelope.code = Some(404)
    /\ LastEnvelope.id = None
    /\ LastEnvelope.ts = None


\* a strict constructor's result, converted to WsMessage where there is one
Widen_WsResponse(r) == IF r = Panic THEN Panic ELSE WsMessage_from_WsResponse(r)

Widen_WsRequest(r) == IF r.ok THEN Ok(WsMessage_from_WsRequest(r.v)) ELSE r

(***************************************************************************)
(* C26: the lenient and the strict constructors agree on every input,      *)
(* unrepresentable payloads included: WsMessage::response equals           *)
(* WsMessage::from(WsResponse::new), WsMessage::error equals               *)
(* WsMessage::from(WsResponse::error), and WsMessage::request equals       *)
(* WsRequest::new converted to WsMessage (both succeed with equal          *)
(* envelopes or both fail).                                                *)
(***************************************************************************)
C26_LenientEqualsStrict ==
    /\ last.op = "WsMessage_response"
       => last.ret = Widen_WsResponse(
             WsResponse_new(last.args.req_id, last.args.msg, last.args.msg_data))
    /\ last.op = "WsResponse_new"
       => Widen_WsResponse(last.ret)
          = WsMessage_response(last.args.req_id, last.args.msg, last.args.msg_data)
    /\ last.op = "WsMessage_error"
       => last.ret = Widen_WsResponse(
             WsResponse_error(last.args.req_id, last.args.code, last.args.msg_data))
    /\ last.op = "WsResponse_error"
       => Widen_WsResponse(last.ret)
          = WsMessage_error(last.args.req_id, last.args.code, last.args.msg_data)
    /\ last.op = "WsMessage_request"
       => last.ret = Widen_WsRequest(
             WsRequest_new(last.args.id, last.args.msg, last.args.msg_data))
    /\ last.op = "WsRequest_new"
       => Widen_WsRequest(last.ret)
          = WsMessage_request(last.args.id, last.args.msg, last.args.msg_data)

C26_Witness ==
    /\ last.op = "WsMessage_response"
    /\ ~Representable(last.args.msg_data)
    /\ last.args.req_id = 1
    /\ last.ret.code = Some(500)
    /\ last.ret = WsMessage_from_WsResponse(
          WsResponse_new(1, last.args.msg, last.args.msg_data))


\* the same map in every iteration order
Reorderings(map) ==
    { [i \in 1..Len(map) |-> map[p[i]]] : p \in Permutations(1..Len(map)) }

MaxOrderedSize == 3

OrderLangs == {"de_AT", "de_CH", "fr_CA", "it", "de", ""}

OrderedMaps == { g \in HashMaps : Len(g) <= MaxOrderedSize }

\* two lookups of the same tag in the same map, iterated in two orders
InitOrder ==
    /\ clock = 0
    /\ reading = None
    /\ sentIds = {}
    /\ respIds = {}
    /\ calls = NoCalls
    /\ \E h \in OrderedMaps, l \in OrderLangs :
          \E o \in Reorderings(h) :
             last = [op |-> "text_from_language_map_twice",
                     args |-> [map |-> Some(h), reordered |-> Some(o), lang |-> l]]

LookupTwice ==
    Return("text_from_language_map_twice",
           [first |-> text_from_language_map(last.args.map, last.args.lang),
            second |-> text_from_language_map(last.args.reordered, last.args.lang)])

NextOrder == LookupTwice

SpecOrder == InitOrder /\ [][NextOrder]_vars

LookedTwice == Returned /\ last.op = "text_from_language_map_twice"

\* the decision is made by step 1, 2 or 4, or by step 3 with one candidate
Decided(map, lang) ==
    \/ lang \in Keys(map)
    \/ FallbackBase(lang) \in Keys(map)
    \/ Variants(map, FallbackBase(lang)) = {} /\ "en" \in Keys(map)
    \/ Cardinality(Variants(map, FallbackBase(lang))) = 1

(***************************************************************************)
(* C27: for a fixed map and tag the result of text_from_language_map does  *)
(* not depend on the iteration order of the map whenever the decision is   *)
(* made by step 1, 2 or 4 (the exact key exists, or the base-language key  *)
(* exists, or no key starts with "<base>_" and the key en exists), and     *)
(* also when exactly one key starts with "<base>_"; only a choice among    *)
(* several same-base variants or among the entries of a map without en may *)
(* differ between orders.                                                  *)
(***************************************************************************)
C27_OrderIndependent ==
    LookedTwice
    => /\ Decided(last.args.map[1], last.args.lang)
          => last.ret.first = last.ret.second
       /\ last.ret.first # last.ret.second
          => \/ Cardinality(Variants(last.args.map[1],
                                     FallbackBase(last.args.lang))) >= 2
             \/ "en" \notin Keys(last.args.map[1])

C27_Witness ==
    /\ LookedTwice
    /\ last.args.lang = "de_AT"
    /\ Keys(last.args.map[1]) = {"de_CH", "en", "fr_FR"}
    /\ last.args.map[1][1].k = "fr_FR"
    /\ last.args.reordered[1][1].k = "en"
    /\ last.ret.first = Some("Swiss German")
    /\ last.ret.second = Some("Swiss German")


(***************************************************************************)
(* intg/ws: the response message a request declares                        *)
(***************************************************************************)
\* mutant: GetDeviceState declares its event as a response message
get_message_WithDeviceState(v) ==
    CASE v = "GetDriverVersion" -> Some("driver_version")
      [] v = "GetDeviceState" -> Some("device_state")
      [] v = "GetAvailableEntities" -> Some("available_entities")
      [] v = "GetEntityStates" -> Some("entity_states")
      [] v = "GetDriverMetadata" -> Some("driver_metadata")
      [] OTHER -> Some("result")

\* EnumMessage::get_message: the #[strum(message = ..)] of the variant
get_message(v) ==
    CASE v = "GetDriverVersion" -> Some("driver_version")
      [] v = "GetDeviceState" -> None
      [] v = "GetAvailableEntities" -> Some("available_entities")
      [] v = "SubscribeEvents" -> Some("result")
      [] v = "UnsubscribeEvents" -> Some("result")
      [] v = "GetEntityStates" -> Some("entity_states")
      [] v = "EntityCommand" -> Some("result")
      [] v = "GetDriverMetadata" -> Some("driver_metadata")
      [] v = "SetupDriver" -> Some("result")
      [] v = "SetDriverUserData" -> Some("result")

PairingEnums == {"R2Request", "DriverResponse", "DriverEvent"}

PairingCalls ==
    { [op |-> "get_message", args |-> [v |-> v]] : v \in R2Request }
    \cup UNION { { [op |-> "as_ref", args |-> [e |-> e, v |-> v]] :
                     v \in VariantsOf(e) }
                 \cup { [op |-> "from_str", args |-> [e |-> e, s |-> str]] :
                          str \in ParseStrings(e) } :
                 e \in PairingEnums }

InitPairing ==
    /\ clock = 0
    /\ reading = None
    /\ sentIds = {}
    /\ respIds = {}
    /\ calls = NoCalls
    /\ last \in PairingCalls

CallGetMessage == Return("get_message", get_message(last.args.v))

\* the declared response message name is parsed as a DriverResponse
ParseDeclared ==
    /\ Returned
    /\ last.op = "get_message"
    /\ last.ret # None
    /\ last' = [op |-> "from_str",
                args |-> [e |-> "DriverResponse", s |-> last.ret[1],
                          request |-> last.args.v],
                ret |-> from_str("DriverResponse", last.ret[1])]
    /\ UNCHANGED <<clock, reading, sentIds, respIds, calls>>

\* the name of the request without its get_ prefix
Requested(v) == SubSeq(as_ref("R2Request", v), 5, Len(as_ref("R2Request", v)))

\* a request without response message: the requested item is parsed as a
\* DriverEvent
ParseEvent ==
    /\ Returned
    /\ last.op = "get_message"
    /\ last.ret = None
    /\ last' = [op |-> "from_str",
                args |-> [e |-> "DriverEvent", s |-> Requested(last.args.v),
                          request |-> last.args.v],
                ret |-> from_str("DriverEvent", Requested(last.args.v))]
    /\ UNCHANGED <<clock, reading, sentIds, respIds, calls>>

NextPairing ==
    \/ CallGetMessage
    \/ ParseDeclared
    \/ ParseEvent
    \/ CallAsRef
    \/ CallFromStr

SpecPairing == InitPairing /\ [][NextPairing]_vars

(***************************************************************************)
(* C29: request/response pairing: every R2Request variant except           *)
(* GetDeviceState declares a response message name, GetDeviceState         *)
(* declares none (it is answered by the device_state event, a DriverEvent  *)
(* name), and every declared response name (driver_version,                *)
(* available_entities, entity_states, driver_metadata, result) parses to a *)
(* variant of DriverResponse.                                              *)
(***************************************************************************)
C29_Pairing ==
    /\ (Returned /\ last.op = "get_message")
       => (last.ret = None <=> last.args.v = "GetDeviceState")
    /\ (last.op = "from_str" /\ "request" \in DOMAIN last.args)
       => /\ last.ret.ok
          /\ last.args.e = "DriverResponse"
             => /\ last.args.request # "GetDeviceState"
                /\ last.args.s \in {"driver_version", "available_entities",
                                    "entity_states", "driver_metadata", "result"}
                /\ last.ret.v \in DriverResponse
          /\ last.args.e = "DriverEvent"
             => /\ last.args.request = "GetDeviceState"
                /\ last.args.s = "device_state"
                /\ last.ret = Ok("DeviceState")

C29_Witness ==
    /\ last.op = "from_str"
    /\ "request" \in DOMAIN last.args
    /\ last.args.request = "GetEntityStates"
    /\ last.args.s = "entity_states"
    /\ last.ret = Ok("EntityStates")


(***************************************************************************)
(* intg: the update models of IntegrationDriver and Integration            *)
(***************************************************************************)
LanguageTexts == [en |-> "English fallback", de |-> "German fallback"]

IntegrationDrivers ==
    { [driver_id |-> "d1", name |-> LanguageTexts, driver_type |-> dt,
       driver_url |-> "ws://localhost:9000", token |-> tk, auth_method |-> am,
       pwd_protected |-> Some(TRUE), version |-> "1.0.0", min_core_api |-> None,
       icon |-> ic, enabled |-> en, description |-> Some(LanguageTexts),
       developer |-> None, home_page |-> None, device_discovery |-> FALSE,
       instance_count |-> n, setup_data_schema |-> Obj([foo |-> Str("bar")]),
       release_date |-> None, driver_state |-> st] :
        dt \in {"Local", "External"},
        tk \in {None, Some("secret")},
        am \in {None, Some("Header")},
        ic \in {None, Some("uc:icon")},
        en \in BOOLEAN,
        n \in {None, Some(1)},
        st \in {None, Some("Idle")} }

Integrations ==
    { [integration_id |-> "i1", driver_id |-> "d1", device_id |-> dev,
       name |-> LanguageTexts, icon |-> ic, enabled |-> en, setup_data |-> sd,
       device_state |-> st] :
        dev \in {None, Some("main")},
        ic \in {None, Some("uc:icon")},
        en \in BOOLEAN,
        sd \in {EmptyMap, [foo |-> Str("bar")]},
        st \in {None, Some("Connected")} }

\* mutant: the token is not carried over
IntegrationDriverUpdate_from_NoToken(drv) ==
    [driver_id |-> Some(drv.driver_id),
     name |-> Some(drv.name),
     driver_url |-> Some(drv.driver_url),
     token |-> None,
     auth_method |-> drv.auth_method,
     pwd_protected |-> drv.pwd_protected,
     version |-> Some(drv.version),
     min_core_api |-> drv.min_core_api,
     icon |-> drv.icon,
     enabled |-> Some(drv.enabled),
     description |-> drv.description,
     developer |-> drv.developer,
     home_page |-> drv.home_page,
     device_discovery |-> Some(drv.device_discovery),
     setup_data_schema |-> Some(drv.setup_data_schema),
     manifest |-> None,
     release_date |-> drv.release_date]

\* impl From<IntegrationDriver> for IntegrationDriverUpdate
IntegrationDriverUpdate_from(drv) ==
    [driver_id |-> Some(drv.driver_id),
     name |-> Some(drv.name),
     driver_url |-> Some(drv.driver_url),
     token |-> drv.token,
     auth_method |-> drv.auth_method,
     pwd_protected |-> drv.pwd_protected,
     version |-> Some(drv.version),
     min_core_api |-> drv.min_core_api,
     icon |-> drv.icon,
     enabled |-> Some(drv.enabled),
     description |-> drv.description,
     developer |-> drv.developer,
     home_page |-> drv.home_page,
     device_discovery |-> Some(drv.device_discovery),
     setup_data_schema |-> Some(drv.setup_data_schema),
     manifest |-> None,
     release_date |-> drv.release_date]

\* impl From<Integration> for IntegrationUpdate
IntegrationUpdate_from(intg) ==
    [integration_id |-> Some(intg.integration_id),
     driver_id |-> Some(intg.driver_id),
     device_id |-> intg.device_id,
     name |-> Some(intg.name),
     icon |-> intg.icon,
     enabled |-> Some(intg.enabled),
     setup_data |-> Some(intg.setup_data)]

UpdateCalls ==
    { [op |-> "IntegrationDriverUpdate_from", args |-> [drv |-> d]] :
        d \in IntegrationDrivers }
    \cup { [op |-> "IntegrationUpdate_from", args |-> [intg |-> i]] :
             i \in Integrations }

InitUpdate ==
    /\ clock = 0
    /\ reading = None
    /\ sentIds = {}
    /\ respIds = {}
    /\ calls = NoCalls
    /\ last \in UpdateCalls

ConvertDriver ==
    Return("IntegrationDriverUpdate_from", IntegrationDriverUpdate_from(last.args.drv))

ConvertIntegration ==
    Return("IntegrationUpdate_from", IntegrationUpdate_from(last.args.intg))

NextUpdate == ConvertDriver \/ ConvertIntegration

SpecUpdate == InitUpdate /\ [][NextUpdate]_vars

\* the fields of the full models that are not Option
RequiredFields ==
    {"driver_id", "name", "driver_type", "driver_url", "version", "enabled",
     "device_discovery", "setup_data_schema", "integration_id", "setup_data"}

\* the update model holds field f of the full model
Kept(full, update, f) ==
    /\ f \in DOMAIN update
    /\ update[f] = IF f \in RequiredFields THEN Some(full[f]) ELSE full[f]

(***************************************************************************)
(* C30: converting a full model to its update model keeps every value:     *)
(* IntegrationDriverUpdate::from(driver) holds each field of the driver    *)
(* (required fields wrapped as present, optional fields unchanged, the     *)
(* token included) and leaves manifest absent; IntegrationUpdate::from     *)
(* holds integration_id, driver_id, device_id, name, icon, enabled and     *)
(* setup_data, and only device_state is dropped.                           *)
(***************************************************************************)
C30_Integration ==
    (Returned /\ last.op = "IntegrationUpdate_from")
    => /\ \A f \in DOMAIN last.args.intg \ {"device_state"} :
             Kept(last.args.intg, last.ret, f)
       /\ DOMAIN last.ret = DOMAIN last.args.intg \ {"device_state"}

\* the claim as stated
C30_KeepsEveryValue ==
    /\ (Returned /\ last.op = "IntegrationDriverUpdate_from")
       => /\ \A f \in DOMAIN last.args.drv : Kept(last.args.drv, last.ret, f)
          /\ last.ret.manifest = None
    /\ C30_Integration

\* the fields of the driver the update model has no field for
DroppedDriverFields == {"driver_type", "instance_count", "driver_state"}

\* the claim with the fields the driver update model does not have
C30_KeepsUpdateFields ==
    /\ (Returned /\ last.op = "IntegrationDriverUpdate_from")
       => /\ \A f \in DOMAIN last.args.drv \ DroppedDriverFields :
                Kept(last.args.drv, last.ret, f)
          /\ DOMAIN last.ret
             = (DOMAIN last.args.drv \ DroppedDriverFields) \cup {"manifest"}
          /\ last.ret.manifest = None
    /\ C30_Integration

C30_Witness ==
    /\ Returned
    /\ last.op = "IntegrationDriverUpdate_from"
    /\ last.args.drv.token = Some("secret")
    /\ last.args.drv.driver_type = "External"
    /\ last.args.drv.driver_state = Some("Idle")
    /\ last.ret.token = Some("secret")
    /\ last.ret.driver_id = Some("d1")
    /\ last.ret.manifest = None
    /\ "driver_type" \notin DOMAIN last.ret

====
